---- MODULE Spec2Model ----
(***************************************************************************)
(* Model of the draw-captcha repository: the scoring engine                *)
(* (src/app/draw-captcha/scoring.ts), the stroke metrics calculator        *)
(* (src/app/draw-captcha/metrics.ts) and the capture hook                  *)
(* useStrokeCapture (src/unnamed/part_000).                                *)
(*                                                                         *)
(* Numbers.  Scores, confidences and the combined score are exact          *)
(* rationals [num, den] (den > 0, lowest terms): the arithmetic of         *)
(* getCombinedScore is modelled over the rationals, so the rounding of     *)
(* IEEE-754 doubles is outside the engine's model.  The numbers of the     *)
(* metrics and of the session's aggregates are rounded binary              *)
(* floating-point numbers (see "Floating-point numbers" below).            *)
(***************************************************************************)
EXTENDS Integers, Sequences, FiniteSets, TLC

VARIABLES
    algorithms,   \* ScoringEngine.algorithms: the ordered registry
    ret,          \* the last engine operation and what it returned
    evalLog,      \* history of return values: the mapping the first evaluate
                  \* since the registry last changed returned, its session, and
                  \* whether evaluate was called on that session again
    calls,        \* SpecConc: the evaluate calls in flight, each with its locals
    mPoints,      \* SpecMetrics: the points handed to computeStrokeMetrics
    mResult,      \* SpecMetrics: << >>, or <<what computeStrokeMetrics returned>>
    hook,         \* SpecCapture: the state and refs of useStrokeCapture
    now,          \* SpecCapture: performance.now(), in ms
    built,        \* SpecCapture, SpecUI: << >>, or <<the session buildSession
                  \* returned last>> while its caller holds it
    ui            \* SpecUI: the state and refs of DrawCaptcha and Canvas, and
                  \* the pointers in contact with the canvas

engineVars == <<algorithms, ret, evalLog>>
concVars == <<calls>>
metricVars == <<mPoints, mResult>>
captureVars == <<hook, now, built>>
uiVars == <<ui>>
vars == <<algorithms, ret, evalLog, calls, mPoints, mResult, hook, now, built, ui>>

-----------------------------------------------------------------------------
(* Bounds *)

MaxAlgos == 3        \* registered algorithms at most
MaxConcAlgos == 2    \* registry size under interleaved evaluation (SpecConc)
MaxPts == 4          \* points of a stroke handed to computeStrokeMetrics
MaxStrokes == 2      \* strokes retained in one session at most (SpecCapture)
MaxBuf == 2          \* points in the buffer of a gesture at most

\* The sessions handed to the engine: the engine never looks inside one, it
\* only passes it to score().
Sessions == {1, 2}
Names == {"timing", "micro-motor", "stroke-entropy"}

-----------------------------------------------------------------------------
(* Exact rationals *)

Abs(n) == IF n < 0 THEN -n ELSE n

RECURSIVE Gcd(_, _)
Gcd(a, b) == IF b = 0 THEN a ELSE Gcd(b, a % b)

\* n/d in lowest terms with a positive denominator (d # 0)
Q(n, d) ==
    LET g == Gcd(Abs(n), Abs(d))
        s == IF d < 0 THEN -1 ELSE 1
    IN  [num |-> (s * n) \div g, den |-> (s * d) \div g]

QInt(n) == [num |-> n, den |-> 1]
QAdd(a, b) == Q(a.num * b.den + b.num * a.den, a.den * b.den)
QMul(a, b) == Q(a.num * b.num, a.den * b.den)
QDiv(a, b) == Q(a.num * b.den, a.den * b.num)
QLe(a, b) == a.num * b.den <= b.num * a.den
QLt(a, b) == a.num * b.den < b.num * a.den

-----------------------------------------------------------------------------
(* Scoring algorithms plugged into the engine *)

Result(s, c, sig, d) ==
    [score |-> s, confidence |-> c, signals |-> sig, details |-> d]

Returns(r) == [kind |-> "return", result |-> r]
Throws(msg) == [kind |-> "throw", message |-> msg]

\* What a call of score(session) can do: throw, or return a ScoringResult.
OutcomePool ==
    << Throws("boom"),
       Returns(Result(Q(1, 5), QInt(1), {<<"cv", 1>>}, "ok")),
       Returns(Result(Q(4, 5), Q(1, 2), {}, "ok")),
       Returns(Result(QInt(-1), QInt(1), {}, "no opinion")),
       Returns(Result(QInt(0), QInt(0), {}, "not yet implemented")),
       Returns(Result(QInt(0), QInt(1), {}, "ok")) >>

\* A ScoringAlgorithm: its name and which pure function of the session it is.
Algorithms ==
    {a \in [name : Names, impl : 1..Len(OutcomePool)] :
        \/ a.name = "timing"
        \/ a.name = "micro-motor" /\ a.impl = 3
        \/ a.name = "stroke-entropy" /\ a.impl = 1}

\* algo.score(session): a pure function of the algorithm and the session.
Score(algo, session) ==
    OutcomePool[((algo.impl - 1 + session - 1) % Len(OutcomePool)) + 1]

-----------------------------------------------------------------------------
(* Map<string, ScoringResult>: entries in insertion order *)

EmptyMap == << >>

MapKeys(m) == [i \in 1..Len(m) |-> m[i].key]
MapHas(m, k) == \E i \in 1..Len(m) : m[i].key = k
MapGet(m, k) == m[CHOOSE i \in 1..Len(m) : m[i].key = k].value

\* (mutant) an existing key is deleted and set anew, so it moves to the end
MapSetMovesToEnd(m, k, v) ==
    LET Other(e) == e.key # k
    IN  Append(SelectSeq(m, Other), [key |-> k, value |-> v])

\* (mutant) an existing key keeps its first value
MapSetKeepsFirst(m, k, v) ==
    IF MapHas(m, k) THEN m ELSE Append(m, [key |-> k, value |-> v])

\* Map.prototype.set: an existing key keeps its position and takes the new
\* value, a new key is appended.
MapSet(m, k, v) ==
    IF MapHas(m, k)
    THEN [i \in 1..Len(m) |->
            IF m[i].key = k THEN [key |-> k, value |-> v] ELSE m[i]]
    ELSE Append(m, [key |-> k, value |-> v])

-----------------------------------------------------------------------------
(* ScoringEngine *)

\* The result substituted for an algorithm whose score() threw.
ErrorResult(msg) == Result(QInt(-1), QInt(0), {}, "Error: " \o msg)

\* The state of one evaluate call: its local results map, the algorithms it has
\* invoked so far, and how it completes.
NewCall == [results |-> EmptyMap, invoked |-> << >>, completion |-> "normal"]

\* (mutant) the loop body without its try/catch: a throw leaves evaluate.
EvaluateStepNoCatch(acc, algo, session) ==
    LET o == Score(algo, session) IN
    IF acc.completion # "normal" THEN acc
    ELSE IF o.kind = "return"
         THEN [acc EXCEPT !.results = MapSet(@, algo.name, o.result),
                          !.invoked = Append(@, algo)]
         ELSE [acc EXCEPT !.invoked = Append(@, algo),
                          !.completion = "throw"]

\* One iteration of evaluate's loop.
EvaluateStep(acc, algo, session) ==
    LET o == Score(algo, session) IN
    IF acc.completion # "normal" THEN acc
    ELSE IF o.kind = "return"
         THEN [acc EXCEPT !.results = MapSet(@, algo.name, o.result),
                          !.invoked = Append(@, algo)]
         ELSE [acc EXCEPT !.results = MapSet(@, algo.name, ErrorResult(o.message)),
                          !.invoked = Append(@, algo)]

RECURSIVE EvaluateFrom(_, _, _, _)
EvaluateFrom(algos, i, session, acc) ==
    IF i > Len(algos) THEN acc
    ELSE EvaluateFrom(algos, i + 1, session, EvaluateStep(acc, algos[i], session))

\* evaluate(session) on the registry algos
Evaluate(algos, session) == EvaluateFrom(algos, 1, session, NewCall)

RECURSIVE SumFrom(_, _, _)
\* The loop of getCombinedScore from entry i on; tot = [score, weight].
SumFrom(results, i, tot) ==
    IF i > Len(results) THEN tot
    ELSE LET r == results[i].value IN
         SumFrom(results, i + 1,
                 IF QLe(QInt(0), r.score)
                 THEN [score  |-> QAdd(tot.score, QMul(r.score, r.confidence)),
                       weight |-> QAdd(tot.weight, r.confidence)]
                 ELSE tot)

\* (mutant) the final test made on totalScore instead of totalWeight
CombineTestsScore(results) ==
    IF Len(results) = 0 THEN QInt(-1)
    ELSE LET tot == SumFrom(results, 1, [score |-> QInt(0), weight |-> QInt(0)])
         IN  IF QLt(QInt(0), tot.score) THEN QDiv(tot.score, tot.weight)
             ELSE QInt(-1)

RECURSIVE SumAllFrom(_, _, _)
SumAllFrom(results, i, tot) ==
    IF i > Len(results) THEN tot
    ELSE LET r == results[i].value IN
         SumAllFrom(results, i + 1,
                    [score  |-> QAdd(tot.score, QMul(r.score, r.confidence)),
                     weight |-> QAdd(tot.weight, r.confidence)])

\* (mutant) the sentinel is averaged like a real score
CombineAveragesSentinel(results) ==
    IF Len(results) = 0 THEN QInt(-1)
    ELSE LET tot == SumAllFrom(results, 1, [score |-> QInt(0), weight |-> QInt(0)])
         IN  IF QLt(QInt(0), tot.weight) THEN QDiv(tot.score, tot.weight)
             ELSE QInt(-1)

\* getCombinedScore after its call of evaluate: the value it returns for the
\* mapping evaluate gave it.
Combine(results) ==
    IF Len(results) = 0 THEN QInt(-1)
    ELSE LET tot == SumFrom(results, 1, [score |-> QInt(0), weight |-> QInt(0)])
         IN  IF QLt(QInt(0), tot.weight) THEN QDiv(tot.score, tot.weight)
             ELSE QInt(-1)

\* getCombinedScore(session) on the registry algos
GetCombinedScore(algos, session) ==
    LET e == Evaluate(algos, session) IN
    IF e.completion # "normal"
    THEN [completion |-> e.completion, value |-> QInt(0), results |-> e.results]
    ELSE [completion |-> "normal", value |-> Combine(e.results),
          results |-> e.results]

-----------------------------------------------------------------------------
(* The engine's operations as actions (Spec) *)

\* evalLog is << >> (evaluate not called since the registry changed) or
\* <<[session, results, again]>>
NoLog == << >>

LogEvaluate(log, session, results) ==
    IF log = << >>
    THEN <<[session |-> session, results |-> results, again |-> FALSE]>>
    ELSE IF log[1].session = session
         THEN <<[log[1] EXCEPT !.again = TRUE]>>
         ELSE log

InitEngine ==
    /\ algorithms = << >>
    /\ ret = [op |-> "new"]
    /\ evalLog = NoLog

\* (mutant) register replaces an algorithm already registered under the name
RegisterReplacing(a) ==
    /\ Len(algorithms) < MaxAlgos
    /\ algorithms' =
         IF \E i \in 1..Len(algorithms) : algorithms[i].name = a.name
         THEN [i \in 1..Len(algorithms) |->
                 IF algorithms[i].name = a.name THEN a ELSE algorithms[i]]
         ELSE Append(algorithms, a)
    /\ ret' = [op |-> "register", algo |-> a]
    /\ evalLog' = NoLog
    /\ UNCHANGED <<concVars, metricVars, captureVars, uiVars>>

Register(a) ==
    /\ Len(algorithms) < MaxAlgos
    /\ algorithms' = Append(algorithms, a)
    /\ ret' = [op |-> "register", algo |-> a]
    /\ evalLog' = NoLog
    /\ UNCHANGED <<concVars, metricVars, captureVars, uiVars>>

\* (mutant) only the first algorithm of that name is removed
FilterOutFirst(algos, name) ==
    IF \E i \in 1..Len(algos) : algos[i].name = name
    THEN LET k == CHOOSE i \in 1..Len(algos) :
                    /\ algos[i].name = name
                    /\ \A j \in 1..(i - 1) : algos[j].name # name
         IN  SubSeq(algos, 1, k - 1) \o SubSeq(algos, k + 1, Len(algos))
    ELSE algos

\* this.algorithms.filter((a) => a.name !== name)
FilterOut(algos, name) ==
    LET Keep(a) == a.name # name IN SelectSeq(algos, Keep)

Unregister(name) ==
    /\ algorithms' = FilterOut(algorithms, name)
    /\ ret' = [op |-> "unregister", name |-> name,
               removed |-> Len(algorithms) - Len(algorithms')]
    /\ evalLog' = NoLog
    /\ UNCHANGED <<concVars, metricVars, captureVars, uiVars>>

\* (mutant) evaluate drops from the registry the algorithms that threw
EvaluateDroppingFailed(session) ==
    LET e == Evaluate(algorithms, session)
        Ok(a) == Score(a, session).kind = "return"
    IN  /\ algorithms' = SelectSeq(algorithms, Ok)
        /\ ret' = [op |-> "evaluate", session |-> session,
                   completion |-> e.completion, results |-> e.results,
                   invoked |-> e.invoked]
        /\ evalLog' = LogEvaluate(evalLog, session, e.results)
        /\ UNCHANGED <<concVars, metricVars, captureVars, uiVars>>

EvaluateCall(session) ==
    LET e == Evaluate(algorithms, session) IN
    /\ ret' = [op |-> "evaluate", session |-> session,
               completion |-> e.completion, results |-> e.results,
               invoked |-> e.invoked]
    /\ evalLog' = LogEvaluate(evalLog, session, e.results)
    /\ UNCHANGED <<algorithms, concVars, metricVars, captureVars, uiVars>>

GetCombinedScoreCall(session) ==
    LET c == GetCombinedScore(algorithms, session) IN
    /\ ret' = [op |-> "getCombinedScore", session |-> session,
               completion |-> c.completion, value |-> c.value,
               results |-> c.results]
    /\ UNCHANGED <<algorithms, evalLog, concVars, metricVars, captureVars, uiVars>>

\* the state of the parts a specification does not exercise
IdleConc == calls = << >>
IdleMetrics == mPoints = << >> /\ mResult = << >>
IdleCapture == hook = << >> /\ now = 0 /\ built = << >>
IdleUI == ui = << >>

Init ==
    /\ InitEngine
    /\ IdleConc
    /\ IdleMetrics
    /\ IdleCapture
    /\ IdleUI

Next ==
    \/ \E a \in Algorithms : Register(a)
    \/ \E n \in Names : Unregister(n)
    \/ \E s \in Sessions : EvaluateCall(s)
    \/ \E s \in Sessions : GetCombinedScoreCall(s)

Spec == Init /\ [][Next]_vars


-----------------------------------------------------------------------------
(* Two calls of evaluate / getCombinedScore whose per-algorithm invocations   *)
(* interleave (SpecConc).  Each call owns its loop position and its results   *)
(* map (the const results of evaluate); the registry is the one thing shared. *)

RECURSIVE SeqsUpTo(_, _)
\* the sequences over S of length at most n
SeqsUpTo(S, n) ==
    IF n = 0 THEN {<< >>}
    ELSE LET shorter == SeqsUpTo(S, n - 1)
         IN  shorter \cup {Append(q, x) : q \in shorter, x \in S}

CallIds == {1, 2}

StartCall(kind, session) ==
    [kind |-> kind, session |-> session, i |-> 1, acc |-> NewCall,
     pc |-> "loop", overlapped |-> FALSE, returned |-> [pending |-> TRUE]]

InitConc ==
    /\ algorithms \in SeqsUpTo(Algorithms, MaxConcAlgos)
    /\ ret = [op |-> "new"]
    /\ evalLog = NoLog
    /\ \E k1, k2 \in {"evaluate", "getCombinedScore"} :
       \E s1, s2 \in Sessions :
           /\ s1 # s2
           /\ calls = <<StartCall(k1, s1), StartCall(k2, s2)>>
    /\ IdleMetrics
    /\ IdleCapture
    /\ IdleUI

\* the other call has started its loop and not yet returned
InFlight(c) == calls[c].pc = "loop" /\ calls[c].i > 1

\* (mutant) results is one map of the engine, shared by the calls in flight
ConcStepSharedResults(c) ==
    LET me == calls[c]
        acc == EvaluateStep(me.acc, algorithms[me.i], me.session)
    IN  /\ me.pc = "loop"
        /\ me.i <= Len(algorithms)
        /\ calls' = [d \in CallIds |->
                       IF d = c
                       THEN [me EXCEPT !.acc = acc, !.i = @ + 1,
                                       !.overlapped = @ \/ InFlight(3 - c)]
                       ELSE [calls[d] EXCEPT !.acc.results = acc.results]]
        /\ UNCHANGED <<engineVars, metricVars, captureVars, uiVars>>

\* call c runs one iteration of evaluate's loop: one score() invocation
ConcStep(c) ==
    LET me == calls[c] IN
    /\ me.pc = "loop"
    /\ me.i <= Len(algorithms)
    /\ calls' = [calls EXCEPT
                   ![c] = [me EXCEPT
                             !.acc = EvaluateStep(@, algorithms[me.i], me.session),
                             !.i = @ + 1,
                             !.overlapped = @ \/ InFlight(3 - c)]]
    /\ UNCHANGED <<engineVars, metricVars, captureVars, uiVars>>

\* call c leaves the loop and returns: the mapping, or the combined score of it
ConcReturn(c) ==
    LET me == calls[c] IN
    /\ me.pc = "loop"
    /\ me.i > Len(algorithms)
    /\ calls' = [calls EXCEPT
                   ![c] = [me EXCEPT
                             !.pc = "done",
                             !.returned =
                                 IF me.kind = "evaluate"
                                 THEN [results |-> me.acc.results]
                                 ELSE [value |-> Combine(me.acc.results)]]]
    /\ UNCHANGED <<engineVars, metricVars, captureVars, uiVars>>

NextConc ==
    \/ \E c \in CallIds : ConcStep(c)
    \/ \E c \in CallIds : ConcReturn(c)

SpecConc == InitConc /\ [][NextConc]_vars

-----------------------------------------------------------------------------
(* Vocabulary of the engine's properties *)

NamesOf(algos) == [i \in 1..Len(algos) |-> algos[i].name]

\* i is the last algorithm registered under its name
LastOfName(algos, i) == \A j \in (i + 1)..Len(algos) : algos[j].name # algos[i].name

FirstIndex(seq, x) ==
    CHOOSE i \in 1..Len(seq) : seq[i] = x /\ \A j \in 1..(i - 1) : seq[j] # x

IsSentinel(r) ==
    r.score = QInt(-1) /\ r.confidence = QInt(0) /\ r.signals = {}

\* The entry of algorithm a's name is what a's own call of score() produced.
RecordsOwnOutcome(results, a, session) ==
    LET o == Score(a, session) IN
    /\ MapHas(results, a.name)
    /\ IF o.kind = "throw"
       THEN IsSentinel(MapGet(results, a.name))
       ELSE MapGet(results, a.name) = o.result

HasDuplicateName(algos) ==
    \E i, j \in 1..Len(algos) : i < j /\ algos[i].name = algos[j].name

RECURSIVE QSum(_, _)
\* the sum of f over the index set S
QSum(f, S) ==
    IF S = {} THEN QInt(0)
    ELSE LET x == CHOOSE x \in S : TRUE IN QAdd(f[x], QSum(f, S \ {x}))

Eligible(results) ==
    {i \in 1..Len(results) : QLe(QInt(0), results[i].value.score)}

TotalWeight(results) ==
    QSum([i \in 1..Len(results) |-> results[i].value.confidence],
         Eligible(results))

TotalScore(results) ==
    QSum([i \in 1..Len(results) |->
            QMul(results[i].value.score, results[i].value.confidence)],
         Eligible(results))

-----------------------------------------------------------------------------
(* C1 *)

\* C1 as stated: evaluate returns normally, invokes every registered algorithm
\* in order, and the entry of EVERY registered algorithm is that algorithm's own
\* outcome (the sentinel if it threw, its returned result otherwise).
C1_EveryOutcomeRecorded ==
    ret.op = "evaluate" =>
        /\ ret.completion = "normal"
        /\ ret.invoked = algorithms
        /\ \A i \in 1..Len(algorithms) :
               RecordsOwnOutcome(ret.results, algorithms[i], ret.session)

\* C1 amended: evaluate returns normally whatever throws, every registered
\* algorithm is invoked, in registration order, and for every algorithm that is
\* the last registered under its name the entry of that name is its own
\* outcome: the sentinel (score -1, confidence 0, no signals) if it threw, its
\* returned result unchanged otherwise.
C1_FailureIsolation ==
    ret.op = "evaluate" =>
        /\ ret.completion = "normal"
        /\ ret.invoked = algorithms
        /\ \A i \in 1..Len(algorithms) :
               LastOfName(algorithms, i) =>
                   RecordsOwnOutcome(ret.results, algorithms[i], ret.session)

\* a throwing algorithm between two that return, all three recorded
C1_Witness ==
    /\ ret.op = "evaluate"
    /\ Len(algorithms) = 3
    /\ ~HasDuplicateName(algorithms)
    /\ Score(algorithms[1], ret.session).kind = "return"
    /\ Score(algorithms[2], ret.session).kind = "throw"
    /\ Score(algorithms[3], ret.session).kind = "return"
    /\ IsSentinel(MapGet(ret.results, algorithms[2].name))
    /\ MapGet(ret.results, algorithms[3].name).confidence # QInt(0)

-----------------------------------------------------------------------------
(* C2 *)

\* C2: the mapping evaluate returns has exactly one entry per registered name,
\* none for any other name, and its keys come in the order in which the names
\* were (first) registered.
C2_OneEntryPerRegisteredName ==
    ret.op = "evaluate" =>
        LET keys == MapKeys(ret.results)
            names == NamesOf(algorithms)
        IN  /\ \A i, j \in 1..Len(keys) : i # j => keys[i] # keys[j]
            /\ {keys[i] : i \in 1..Len(keys)} = {names[i] : i \in 1..Len(names)}
            /\ \A i, j \in 1..Len(keys) :
                   i < j => FirstIndex(names, keys[i]) < FirstIndex(names, keys[j])

\* evaluate on a registry with a name registered twice around another name,
\* and a name that is not registered
C2_Witness ==
    /\ ret.op = "evaluate"
    /\ Len(algorithms) = 3
    /\ algorithms[1].name = algorithms[3].name
    /\ algorithms[2].name # algorithms[1].name
    /\ Len(ret.results) = 2

-----------------------------------------------------------------------------
(* C3 *)

-----------------------------------------------------------------------------
(* C4 *)

\* C4: getCombinedScore returns -1 exactly when the registry is empty or the
\* total confidence of the results with score >= 0 is 0; a result with score >= 0
\* and confidence > 0 makes the value >= 0; one result with score 0 and
\* positive confidence gives 0.
C4_NoVerdict ==
    ret.op = "getCombinedScore" =>
        LET m == ret.results IN
        /\ ret.completion = "normal"
        /\ (ret.value = QInt(-1)) <=>
               (Len(algorithms) = 0 \/ TotalWeight(m) = QInt(0))
        /\ (\E i \in 1..Len(m) : /\ QLe(QInt(0), m[i].value.score)
                                 /\ QLt(QInt(0), m[i].value.confidence))
           => QLe(QInt(0), ret.value)
        /\ ( /\ Len(m) = 1
             /\ m[1].value.score = QInt(0)
             /\ QLt(QInt(0), m[1].value.confidence) )
           => ret.value = QInt(0)

\* zero risk with positive confidence, next to a failed algorithm
C4_Witness ==
    /\ ret.op = "getCombinedScore"
    /\ Len(ret.results) = 2
    /\ \E i \in 1..2 : IsSentinel(ret.results[i].value)
    /\ \E i \in 1..2 : /\ ret.results[i].value.score = QInt(0)
                       /\ ret.results[i].value.confidence = QInt(1)
    /\ ret.value = QInt(0)

-----------------------------------------------------------------------------
(* C5 *)

\* C5: an unregister(name) step leaves no algorithm of that name, keeps every
\* other algorithm, in the same relative order, and changes nothing when no
\* algorithm has the name.
C5_UnregisterRemovesAll ==
    [][ret'.op = "unregister" =>
         LET n == ret'.name
             kept == {i \in 1..Len(algorithms) : algorithms[i].name # n}
         IN  /\ \A i \in 1..Len(algorithms') : algorithms'[i].name # n
             /\ Len(algorithms') = Cardinality(kept)
             /\ \A i \in kept :
                    algorithms'[Cardinality({j \in kept : j <= i})] = algorithms[i]
             /\ kept = 1..Len(algorithms) => algorithms' = algorithms
       ]_vars

\* two algorithms of one name were removed and another stayed
C5_Witness ==
    /\ ret.op = "unregister"
    /\ ret.removed = 2
    /\ Len(algorithms) = 1

-----------------------------------------------------------------------------
(* C6 *)

\* C6: a register(a) step appends a and keeps every algorithm registered
\* before, also one of the same name; evaluate invokes score() of every member
\* once, in registration order.
C6_RegisterAppends ==
    /\ [][ret'.op = "register" => algorithms' = Append(algorithms, ret'.algo)]_vars
    /\ [](ret.op = "evaluate" => ret.invoked = algorithms)

\* evaluate invoked three members, two of them under one name
C6_Witness ==
    /\ ret.op = "evaluate"
    /\ Len(ret.invoked) = 3
    /\ HasDuplicateName(algorithms)
    /\ ret.invoked = algorithms

-----------------------------------------------------------------------------
(* C7 *)

-----------------------------------------------------------------------------
(* C8 *)

\* what the call returns when it runs alone on its session
ReturnedAlone(kind, session) ==
    IF kind = "evaluate"
    THEN [results |-> Evaluate(algorithms, session).results]
    ELSE [value |-> GetCombinedScore(algorithms, session).value]

\* C8: under every interleaving of the score() invocations of two calls on
\* different sessions, each call returns what it returns when run alone on its
\* session.
C8_NoInterference ==
    \A c \in DOMAIN calls :
        calls[c].pc = "done" =>
            calls[c].returned = ReturnedAlone(calls[c].kind, calls[c].session)

\* both calls returned, their loops overlapped, and the two sessions give
\* different mappings
C8_Witness ==
    /\ calls # << >>
    /\ \A c \in CallIds : calls[c].pc = "done" /\ calls[c].overlapped
    /\ calls[1].session # calls[2].session
    /\ Len(algorithms) = 2
    /\ calls[1].acc.results # calls[2].acc.results
    /\ calls[1].kind = "evaluate"
    /\ calls[2].kind = "getCombinedScore"


-----------------------------------------------------------------------------
(* Floating-point numbers                                                    *)
(*                                                                           *)
(* The numbers of metrics.ts are IEEE-754 binary floating-point numbers:     *)
(* every sqrt, sum, difference and quotient is the exact result rounded to   *)
(* the nearest representable number, ties to even.  A number is modelled as  *)
(* [m, e], standing for m * 2^e, with m = 0 (and e = 0) or                    *)
(* 2^(Precision-1) <= |m| < 2^Precision, so that equal numbers are equal     *)
(* records.  The rounding rule is the one of the source's numbers; the       *)
(* significand is Precision bits wide where a double has 53.  Exponents are  *)
(* unbounded: nothing here overflows or underflows.                          *)

Precision == 13

RECURSIVE Pow2(_)
Pow2(k) == IF k = 0 THEN 1 ELSE 2 * Pow2(k - 1)

RECURSIVE BitLen(_)
\* the number of bits of a >= 0
BitLen(a) == IF a = 0 THEN 0 ELSE 1 + BitLen(a \div 2)

FZero == [m |-> 0, e |-> 0]

\* n * 2^e rounded to the nearest number, ties to even
FRound(n, e) ==
    LET a == Abs(n)
        sign == IF n < 0 THEN -1 ELSE 1
        k == BitLen(a) - Precision
    IN  IF a = 0 THEN FZero
        ELSE IF k <= 0 THEN [m |-> sign * a * Pow2(-k), e |-> e + k]
        ELSE LET q == a \div Pow2(k)
                 r == a % Pow2(k)
                 half == Pow2(k - 1)
                 up == r > half \/ (r = half /\ q % 2 = 1)
                 q2 == IF up THEN q + 1 ELSE q
             IN  IF q2 = Pow2(Precision)
                 THEN [m |-> sign * Pow2(Precision - 1), e |-> e + k + 1]
                 ELSE [m |-> sign * q2, e |-> e + k]

\* the number a whole number is
FromInt(n) == FRound(n, 0)

FNeg(a) == [m |-> -a.m, e |-> a.e]

\* (mutant) the number itself, sign kept
FAbsKeepsSign(a) == a

\* Math.abs
FAbs(a) == [m |-> Abs(a.m), e |-> a.e]

\* a + b
FAdd(a, b) ==
    IF a.m = 0 THEN b
    ELSE IF b.m = 0 THEN a
    ELSE LET hi == IF a.e >= b.e THEN a ELSE b
             lo == IF a.e >= b.e THEN b ELSE a
             d == hi.e - lo.e
         IN  IF d > Precision + 2
             THEN FRound(8 * hi.m + (IF lo.m < 0 THEN -1 ELSE 1), hi.e - 3)
             ELSE FRound(hi.m * Pow2(d) + lo.m, lo.e)

\* a - b
FSub(a, b) == FAdd(a, FNeg(b))

\* a < b and a <= b (a difference rounds to a number of its own sign)
FLt(a, b) == FSub(a, b).m < 0
FLe(a, b) == FSub(a, b).m <= 0

\* a / b for b # 0: the quotient to Precision + 1 bits and a sticky bit
FDiv(a, b) ==
    IF a.m = 0 THEN FZero
    ELSE LET n == Abs(a.m) * Pow2(Precision + 1)
             q == n \div Abs(b.m)
             sticky == IF n % Abs(b.m) = 0 THEN 0 ELSE 1
             sign == IF (a.m < 0) = (b.m < 0) THEN 1 ELSE -1
         IN  FRound(sign * (2 * q + sticky), a.e - b.e - Precision - 2)

RECURSIVE IsqrtIn(_, _, _)
\* the largest r in lo..hi with r * r <= n
IsqrtIn(n, lo, hi) ==
    IF lo = hi THEN lo
    ELSE LET mid == (lo + hi + 1) \div 2
         IN  IF mid * mid <= n THEN IsqrtIn(n, mid, hi) ELSE IsqrtIn(n, lo, mid - 1)

\* Math.sqrt(a) for a >= 0: the root to Precision + 1 bits and a sticky bit
FSqrt(a) ==
    IF a.m = 0 THEN FZero
    ELSE LET s == IF (a.e - (Precision + 1)) % 2 = 0
                  THEN Precision + 1 ELSE Precision + 2
             n == a.m * Pow2(s)
             r == IsqrtIn(n, 0, Pow2(Precision + 1))
             sticky == IF r * r = n THEN 0 ELSE 1
         IN  FRound(2 * r + sticky, (a.e - s) \div 2 - 1)

-----------------------------------------------------------------------------
(* computeStrokeMetrics (SpecMetrics)                                        *)
(*                                                                           *)
(* Units.  Coordinates are whole pixels and timestamps whole milliseconds,   *)
(* small enough that their differences and squares are exact.  Distances,    *)
(* the length, the duration, velocities and accelerations are floating-point *)
(* numbers.  An angle is a whole number of millidegrees, so PI is 180000.    *)

\* CapturePoint: the fields computeStrokeMetrics reads
Point(x, y, ts) == [x |-> x, y |-> y, timestamp |-> ts]

\* The points strokes are made of, in any order and with repetitions: seven
\* positions, so that consecutive points give positive, zero and negative
\* time deltas, zero-length segments, turns, and the evenly spaced, evenly
\* timed stroke (0,0,0), (1,0,10), (2,0,20), (3,0,30).
CapturePoints ==
    { Point(0, 0, 0),    Point(0, 0, 20),
      Point(1, 0, 10),   Point(2, 0, 20),  Point(3, 0, 30),
      Point(10, 0, 10),
      Point(10, 10, 20), Point(10, 10, 0),
      Point(30, 10, 10) }

\* distance(a, b)
Distance(a, b) ==
    FSqrt(FromInt((b.x - a.x) * (b.x - a.x) + (b.y - a.y) * (b.y - a.y)))

PI == 180000

\* atan(p / q) in millidegrees for 0 < p <= q, p / q in lowest terms
OctantTable(p, q) ==
    CASE p = 1 /\ q = 1 -> 45000
      [] p = 1 /\ q = 2 -> 26565
      [] p = 1 /\ q = 3 -> 18435
      [] p = 1 /\ q = 4 -> 14036
      [] p = 2 /\ q = 3 -> 33690
      [] p = 3 /\ q = 4 -> 36870
      [] p = 7 /\ q = 10 -> 34992
      [] p = 4 /\ q = 5 -> 38660
      [] p = 9 /\ q = 10 -> 41987
      [] p = 10 /\ q = 29 -> 19026
      [] p = 5 /\ q = 14 -> 19654
      [] p = 10 /\ q = 27 -> 20323

\* atan(p / q) for p, q > 0
ArcTan(p, q) ==
    LET g == Gcd(p, q) IN
    IF p <= q THEN OctantTable(p \div g, q \div g)
    ELSE PI \div 2 - OctantTable(q \div g, p \div g)

\* Math.atan2(dy, dx); atan2(0, 0) = 0
Atan2(dy, dx) ==
    IF dy = 0 THEN (IF dx < 0 THEN PI ELSE 0)
    ELSE IF dx = 0 THEN (IF dy > 0 THEN PI \div 2 ELSE -(PI \div 2))
    ELSE LET base == ArcTan(Abs(dy), Abs(dx))
             mag == IF dx > 0 THEN base ELSE PI - base
         IN  IF dy > 0 THEN mag ELSE -mag

\* angle(a, b)
Angle(a, b) == Atan2(b.y - a.y, b.x - a.x)

\* (mutant) the difference of the two bearings without the wrap into [0, PI]
AngleDiffNoWrap(currentAngle, prevAngle) == Abs(currentAngle - prevAngle)

\* angleDiff of two consecutive bearings
AngleDiff(currentAngle, prevAngle) ==
    LET raw == Abs(currentAngle - prevAngle)
    IN  IF raw > PI THEN 2 * PI - raw ELSE raw

LoopStart ==
    [totalLength |-> FZero, velocities |-> << >>, accelerations |-> << >>,
     directionChanges |-> 0, prevAngle |-> << >>]

\* (mutant) a segment without a positive time delta recorded as velocity 0
MetricsStepZeroVelocity(st, points, i) ==
    LET dist == Distance(points[i - 1], points[i])
        dt == points[i].timestamp - points[i - 1].timestamp
        vs == Append(st.velocities,
                     IF dt > 0 THEN FDiv(dist, FromInt(dt)) ELSE FZero)
        dv == FAbs(FSub(vs[Len(vs)], vs[Len(vs) - 1]))
        as == IF dt > 0 /\ Len(vs) > 1
              THEN Append(st.accelerations, FDiv(dv, FromInt(dt)))
              ELSE st.accelerations
        currentAngle == Angle(points[i - 1], points[i])
        turned == /\ st.prevAngle # << >>
                  /\ AngleDiff(currentAngle, st.prevAngle[1]) > PI \div 6
    IN  [totalLength |-> FAdd(st.totalLength, dist),
         velocities |-> vs,
         accelerations |-> as,
         directionChanges |-> st.directionChanges + (IF turned THEN 1 ELSE 0),
         prevAngle |-> <<currentAngle>>]

\* one iteration of the loop, for the segment from points[i - 1] to points[i]
\* (i counts from 2: sequences start at 1)
MetricsStep(st, points, i) ==
    LET dist == Distance(points[i - 1], points[i])
        dt == points[i].timestamp - points[i - 1].timestamp
        velocity == FDiv(dist, FromInt(dt))
        vs == IF dt > 0 THEN Append(st.velocities, velocity) ELSE st.velocities
        dv == FAbs(FSub(velocity, vs[Len(vs) - 1]))
        as == IF dt > 0 /\ Len(vs) > 1
              THEN Append(st.accelerations, FDiv(dv, FromInt(dt)))
              ELSE st.accelerations
        currentAngle == Angle(points[i - 1], points[i])
        turned == /\ st.prevAngle # << >>
                  /\ AngleDiff(currentAngle, st.prevAngle[1]) > PI \div 6
    IN  [totalLength |-> FAdd(st.totalLength, dist),
         velocities |-> vs,
         accelerations |-> as,
         directionChanges |-> st.directionChanges + (IF turned THEN 1 ELSE 0),
         prevAngle |-> <<currentAngle>>]

RECURSIVE MetricsLoop(_, _, _)
MetricsLoop(st, points, i) ==
    IF i > Len(points) THEN st
    ELSE MetricsLoop(MetricsStep(st, points, i), points, i + 1)

RECURSIVE FSumSeq(_, _)
\* series.reduce((a, b) => a + b, 0) over the first n entries
FSumSeq(series, n) ==
    IF n = 0 THEN FZero ELSE FAdd(FSumSeq(series, n - 1), series[n])

RECURSIVE FMaxSeq(_, _)
\* Math.max(...series) of a non-empty series, from entry i on
FMaxSeq(series, i) ==
    IF i = Len(series) THEN series[i]
    ELSE LET rest == FMaxSeq(series, i + 1)
         IN  IF FLe(rest, series[i]) THEN series[i] ELSE rest

\* (mutant) the sum divided by one more than the number of entries
MeanOverOneMore(series) ==
    IF Len(series) > 0
    THEN FDiv(FSumSeq(series, Len(series)), FromInt(Len(series) + 1))
    ELSE FZero

Mean(series) ==
    IF Len(series) > 0
    THEN FDiv(FSumSeq(series, Len(series)), FromInt(Len(series)))
    ELSE FZero

Max(series) == IF Len(series) > 0 THEN FMaxSeq(series, 1) ELSE FZero

\* the record returned for fewer than 2 points
ZeroMetrics ==
    [length |-> FZero, duration |-> FZero, avgVelocity |-> FZero,
     maxVelocity |-> FZero, avgAcceleration |-> FZero,
     maxAcceleration |-> FZero, directionChanges |-> 0]

\* the function from its loop on (points[points.length - 1] of no point is
\* undefined, and reading its timestamp throws)
MetricsBody(points) ==
    IF Len(points) = 0 THEN [threw |-> "TypeError"]
    ELSE LET st == MetricsLoop(LoopStart, points, 2) IN
         [length |-> st.totalLength,
          duration |-> FromInt(points[Len(points)].timestamp - points[1].timestamp),
          avgVelocity |-> Mean(st.velocities),
          maxVelocity |-> Max(st.velocities),
          avgAcceleration |-> Mean(st.accelerations),
          maxAcceleration |-> Max(st.accelerations),
          directionChanges |-> st.directionChanges]

\* (mutant) without the early return for fewer than 2 points
ComputeStrokeMetricsNoGuard(points) == MetricsBody(points)

\* computeStrokeMetrics(points)
ComputeStrokeMetrics(points) ==
    IF Len(points) < 2 THEN ZeroMetrics ELSE MetricsBody(points)

InitMetrics ==
    /\ InitEngine
    /\ IdleConc
    /\ IdleCapture
    /\ IdleUI
    /\ mPoints \in SeqsUpTo(CapturePoints, MaxPts)
    /\ mResult = << >>

ComputeCall ==
    /\ mResult = << >>
    /\ mResult' = <<ComputeStrokeMetrics(mPoints)>>
    /\ UNCHANGED <<engineVars, concVars, mPoints, captureVars, uiVars>>

NextMetrics == ComputeCall

SpecMetrics == InitMetrics /\ [][NextMetrics]_vars


-----------------------------------------------------------------------------
(* C9 *)

\* C9: for 0 or 1 points computeStrokeMetrics returns the record whose seven
\* fields are all 0 (and so returns normally).
C9_ZeroMetrics ==
    (mResult # << >> /\ Len(mPoints) < 2) =>
        LET m == mResult[1] IN
        /\ DOMAIN m = {"length", "duration", "avgVelocity", "maxVelocity",
                       "avgAcceleration", "maxAcceleration", "directionChanges"}
        /\ m.length = FromInt(0) /\ m.duration = FromInt(0)
        /\ m.directionChanges = 0
        /\ m.avgVelocity = FromInt(0) /\ m.maxVelocity = FromInt(0)
        /\ m.avgAcceleration = FromInt(0) /\ m.maxAcceleration = FromInt(0)

\* computeStrokeMetrics has returned for the empty sequence
C9_Witness ==
    /\ mResult # << >>
    /\ mPoints = << >>
    /\ mResult[1].length = FromInt(0)

-----------------------------------------------------------------------------
(* C10 *)

\* the vector of the segment ending at points[i]
Seg(points, i) ==
    <<points[i].x - points[i - 1].x, points[i].y - points[i - 1].y>>

\* the direction a segment's bearing stands for: bearing 0 for no movement
Dir(v) == IF v = <<0, 0>> THEN <<1, 0>> ELSE v

\* the angle between directions u and v is more than 30 degrees:
\* cos < sqrt(3)/2, decided in whole numbers
MoreThan30(u, v) ==
    LET dot == u[1] * v[1] + u[2] * v[2]
        nu == u[1] * u[1] + u[2] * u[2]
        nv == v[1] * v[1] + v[2] * v[2]
    IN  dot < 0 \/ 4 * dot * dot < 3 * nu * nv

Turns(points) ==
    {i \in 3..Len(points) :
        MoreThan30(Dir(Seg(points, i - 1)), Dir(Seg(points, i)))}

\* C10: for 2 or more points directionChanges is the number of segments, from
\* the second on, whose direction makes an angle of more than 30 degrees with
\* the direction of the segment before it (no movement counting as bearing 0),
\* whatever the timestamps; (0,0,0), (10,0,10), (10,10,20) gives 1 and
\* length 20 px.
C10_DirectionChanges ==
    (mResult # << >> /\ Len(mPoints) >= 2) =>
        /\ mResult[1].directionChanges = Cardinality(Turns(mPoints))
        /\ mPoints = <<Point(0, 0, 0), Point(10, 0, 10), Point(10, 10, 20)>> =>
               mResult[1].directionChanges = 1 /\ mResult[1].length = FromInt(20)

\* bearings -153.4 and 180 degrees (raw difference 333.4, wrapped 26.6: no
\* change), then 45 degrees (a change), with a zero and a negative time delta
C10_Witness ==
    /\ mResult # << >>
    /\ mPoints = <<Point(30, 10, 10), Point(10, 0, 10),
                   Point(0, 0, 0), Point(10, 10, 20)>>
    /\ mResult[1].directionChanges = 1

-----------------------------------------------------------------------------
(* C11 *)

\* the time delta of the segment ending at points[i]
Dt(points, i) == points[i].timestamp - points[i - 1].timestamp

\* at least 2 points, every segment the same vector and the same positive
\* time delta: one straight line, constant spacing in space and in time
EvenlySpaced(points) ==
    /\ Len(points) >= 2
    /\ Dt(points, 2) > 0
    /\ \A i \in 2..Len(points) :
           Seg(points, i) = Seg(points, 2) /\ Dt(points, i) = Dt(points, 2)

\* a and b differ by at most n units in the last place of b
WithinUlps(a, b, n) == FLe(FAbs(FSub(a, b)), FRound(n, b.e))

\* C11 as stated: for an evenly spaced, evenly timed straight stroke
\* directionChanges = 0, avgVelocity = maxVelocity and
\* avgAcceleration = maxAcceleration = 0.
C11_ConstantVelocity ==
    (mResult # << >> /\ EvenlySpaced(mPoints)) =>
        LET m == mResult[1] IN
        /\ m.directionChanges = 0
        /\ m.avgVelocity = m.maxVelocity
        /\ m.avgAcceleration = FromInt(0) /\ m.maxAcceleration = FromInt(0)

\* C11 (amended): for such a stroke directionChanges = 0,
\* avgAcceleration = maxAcceleration = 0, maxVelocity is the velocity of the
\* segments, and avgVelocity is maxVelocity for up to 3 points and within one
\* unit in the last place per point of it for more.
C11_ConstantVelocityRounded ==
    (mResult # << >> /\ EvenlySpaced(mPoints)) =>
        LET m == mResult[1]
            v == FDiv(Distance(mPoints[1], mPoints[2]), FromInt(Dt(mPoints, 2)))
        IN  /\ m.directionChanges = 0
            /\ m.avgAcceleration = FromInt(0) /\ m.maxAcceleration = FromInt(0)
            /\ m.maxVelocity = v
            /\ Len(mPoints) <= 3 => m.avgVelocity = m.maxVelocity
            /\ WithinUlps(m.avgVelocity, m.maxVelocity, Len(mPoints))

\* the metrics of four points 1 px and 10 ms apart on one line are computed:
\* three velocities of 1/10 px/ms
C11_Witness ==
    /\ mResult # << >>
    /\ mPoints = <<Point(0, 0, 0), Point(1, 0, 10), Point(2, 0, 20),
                   Point(3, 0, 30)>>
    /\ mResult[1].maxVelocity = FDiv(FromInt(1), FromInt(10))
    /\ mResult[1].directionChanges = 0

-----------------------------------------------------------------------------
(* C12 *)

\* the Euclidean length of the segment ending at points[i]
SegLength(points, i) ==
    LET v == Seg(points, i) IN FSqrt(FromInt(v[1] * v[1] + v[2] * v[2]))

RECURSIVE PathLength(_, _)
\* the lengths of the segments up to points[k], summed in order
PathLength(points, k) ==
    IF k < 2 THEN FromInt(0)
    ELSE FAdd(PathLength(points, k - 1), SegLength(points, k))

RECURSIVE SkipsNonPositiveDt(_, _, _)
\* from the locals st before the segment ending at points[i] on: every
\* segment with a zero or negative time delta leaves both series as they
\* are and adds its length to the total
SkipsNonPositiveDt(st, points, i) ==
    \/ i > Len(points)
    \/ LET after == MetricsStep(st, points, i) IN
       /\ Dt(points, i) <= 0 =>
              /\ after.velocities = st.velocities
              /\ after.accelerations = st.accelerations
              /\ after.totalLength = FAdd(st.totalLength, SegLength(points, i))
       /\ SkipsNonPositiveDt(after, points, i + 1)

\* C12: a segment with a zero or negative time delta adds its length to the
\* total and no entry to the velocity or the acceleration series, and the
\* call returns a record; when all of 2 or more points share one timestamp
\* the four velocity and acceleration fields and duration are 0 and length
\* is the whole path length.
C12_NonPositiveDt ==
    (mResult # << >> /\ Len(mPoints) >= 2) =>
        LET m == mResult[1] IN
        /\ "length" \in DOMAIN m
        /\ m.length = PathLength(mPoints, Len(mPoints))
        /\ SkipsNonPositiveDt(LoopStart, mPoints, 2)
        /\ (\A i \in 2..Len(mPoints) : Dt(mPoints, i) = 0) =>
               /\ m.avgVelocity = FromInt(0) /\ m.maxVelocity = FromInt(0)
               /\ m.avgAcceleration = FromInt(0)
               /\ m.maxAcceleration = FromInt(0)
               /\ m.duration = FromInt(0)

\* the metrics of three points of one timestamp and a path of non-zero
\* length are computed
C12_Witness ==
    /\ mResult # << >>
    /\ mPoints = <<Point(10, 0, 10), Point(30, 10, 10), Point(1, 0, 10)>>
    /\ mResult[1].length # FromInt(0)
    /\ mResult[1].maxVelocity = FromInt(0)

-----------------------------------------------------------------------------
(* C13 *)

\* the velocity of the segment ending at points[i], for a positive time delta
SegVelocity(points, i) == FDiv(SegLength(points, i), FromInt(Dt(points, i)))

RECURSIVE AccelerationsFrom(_, _, _, _, _)
\* From the locals st before the segment ending at points[i] on, last being
\* the velocity recorded most recently (none: << >>): a segment with dt > 0
\* records its velocity v and, when a velocity was recorded before, the
\* acceleration |v - prev| / dt.  prev is the velocity recorded most recently;
\* with adjacent set it has to be the velocity of the segment just before.
AccelerationsFrom(st, points, i, last, adjacent) ==
    \/ i > Len(points)
    \/ LET after == MetricsStep(st, points, i)
           v == SegVelocity(points, i)
           prev == IF adjacent THEN SegVelocity(points, i - 1) ELSE last[1]
       IN  IF Dt(points, i) <= 0
           THEN AccelerationsFrom(after, points, i + 1, last, adjacent)
           ELSE /\ after.velocities = Append(st.velocities, v)
                /\ IF last = << >>
                   THEN after.accelerations = st.accelerations
                   ELSE /\ adjacent => Dt(points, i - 1) > 0
                        /\ after.accelerations =
                               Append(st.accelerations,
                                      FDiv(FAbs(FSub(v, prev)),
                                           FromInt(Dt(points, i))))
                /\ AccelerationsFrom(after, points, i + 1, <<v>>, adjacent)

\* x is the maximum of a series, 0 for the empty one
IsMaxOf(x, series) ==
    IF series = << >> THEN x = FromInt(0)
    ELSE /\ \E i \in 1..Len(series) : x = series[i]
         /\ \A i \in 1..Len(series) : FLe(series[i], x)

\* x is the mean of a series as the source's numbers give it: the entries
\* summed in order from 0, divided by their number; 0 for the empty one
IsMeanOf(x, series) ==
    IF series = << >> THEN x = FromInt(0)
    ELSE x = FDiv(FSumSeq(series, Len(series)), FromInt(Len(series)))

\* what C13 and its amended form share: the number of entries, their sign,
\* and the mean and the maximum of the acceleration series
AccelerationSeries(points, m) ==
    LET st == MetricsLoop(LoopStart, points, 2) IN
    /\ Len(st.accelerations) =
           (IF Len(st.velocities) >= 1 THEN Len(st.velocities) - 1 ELSE 0)
    /\ \A i \in 1..Len(st.accelerations) : st.accelerations[i].m >= 0
    /\ IsMeanOf(m.avgAcceleration, st.accelerations)
    /\ IsMaxOf(m.maxAcceleration, st.accelerations)
    /\ IsMeanOf(m.avgVelocity, st.velocities)
    /\ IsMaxOf(m.maxVelocity, st.velocities)
    /\ m.avgAcceleration.m >= 0 /\ m.avgVelocity.m >= 0

\* C13 as stated: the acceleration series has max(velocities - 1, 0)
\* entries, the entry of a segment is |v - v_prev| / dt with v_prev the
\* velocity of the segment just before it, every entry is >= 0, the two
\* fields are the mean and the maximum of the series, and
\* 0 <= avgAcceleration <= maxAcceleration, 0 <= avgVelocity <= maxVelocity.
C13_Accelerations ==
    (mResult # << >> /\ Len(mPoints) >= 2) =>
        LET m == mResult[1] IN
        /\ AccelerationSeries(mPoints, m)
        /\ AccelerationsFrom(LoopStart, mPoints, 2, << >>, TRUE)
        /\ FLe(m.avgAcceleration, m.maxAcceleration)
        /\ FLe(m.avgVelocity, m.maxVelocity)

\* C13 (amended): as C13 with v_prev the velocity recorded most recently
\* (that of the nearest earlier segment with dt > 0), and with each mean
\* at most its maximum plus one unit in the last place per point.
C13_AccelerationsRecorded ==
    (mResult # << >> /\ Len(mPoints) >= 2) =>
        LET m == mResult[1] IN
        /\ AccelerationSeries(mPoints, m)
        /\ AccelerationsFrom(LoopStart, mPoints, 2, << >>, FALSE)
        /\ FLe(FSub(m.avgAcceleration, m.maxAcceleration),
               FRound(Len(mPoints), m.maxAcceleration.e))
        /\ FLe(FSub(m.avgVelocity, m.maxVelocity),
               FRound(Len(mPoints), m.maxVelocity.e))

\* the metrics of a stroke are computed whose second segment has dt = 0,
\* between two segments of velocities 1 and 1/10: one acceleration,
\* |1/10 - 1| / 10
C13_Witness ==
    /\ mResult # << >>
    /\ mPoints = <<Point(0, 0, 0), Point(10, 0, 10), Point(1, 0, 10),
                   Point(2, 0, 20)>>
    /\ mResult[1].maxAcceleration =
           FDiv(FAbs(FSub(FDiv(FromInt(1), FromInt(10)), FromInt(1))),
                FromInt(10))

-----------------------------------------------------------------------------
(* useStrokeCapture (SpecCapture)                                            *)
(*                                                                           *)
(* The hook's functions are called one at a time, in any order, each call    *)
(* followed by the render that commits its setStrokes; points are made by    *)
(* the canvas's toPoint, which stamps them with performance.now().  world    *)
(* is what a call can reach: the hook's state and refs, and the session the  *)
(* caller holds.  buildSession puts the array of the strokes state itself    *)
(* into the session (sharesState: the session's strokes is still the array   *)
(* the state refers to); setStrokes always receives a new array.             *)

\* what performance.now() reads, in ms, as time passes
ClockReadings == <<0, 100, 150>>

\* where the pointer is at clock reading t, in canvas coordinates: it moves
\* along the x axis, at 1/10 px/ms and then at 2/5 px/ms
PointerAt(t) == IF t <= 100 THEN <<t \div 10, 0>> ELSE <<(2 * t) \div 5 - 30, 0>>

\* the calls the caller makes while it holds a session: up to two
KeptCalls == {0, 1}

\* what Date.now() and crypto.randomUUID() can give
WallTimes == {1700000000}
SessionIds == {"uuid-a", "uuid-b"}

CANVAS_W == 500
CANVAS_H == 375
Prompt == "Draw a star"

\* toPoint(e) at clock reading t
ToPoint(pos, t) == Point(pos[1], pos[2], t)

InitialHook ==
    [strokes |-> << >>, isDrawing |-> FALSE, currentPoints |-> << >>,
     strokeId |-> 0, sessionStart |-> 0, sessionTimestamp |-> 0]

World(h, b) == [hook |-> h, built |-> b]

\* setStrokes(next), next a new array: the state refers to it from the next
\* render on, and a session built before keeps the array it has
SetStrokes(w, next) ==
    [hook |-> [w.hook EXCEPT !.strokes = next],
     built |-> IF w.built = << >> THEN << >>
               ELSE <<[w.built[1] EXCEPT !.sharesState = FALSE]>>]

\* startSession()
StartSession(w, t, wall) ==
    LET w1 == SetStrokes(w, << >>) IN
    [w1 EXCEPT !.hook.strokeId = 0,
               !.hook.sessionStart = t,
               !.hook.sessionTimestamp = wall]

\* beginStroke()
BeginStroke(w) ==
    [w EXCEPT !.hook.isDrawing = TRUE, !.hook.currentPoints = << >>]

\* (mutant) addPoint puts the point at the front of the buffer
AddPointUnshift(w, point) ==
    [w EXCEPT !.hook.currentPoints = <<point>> \o @]

\* addPoint(point)
AddPoint(w, point) == [w EXCEPT !.hook.currentPoints = Append(@, point)]

\* (mutant) the stroke's endTime is the time of its first point
NewStrokeEndsAtStart(id, points) ==
    [id |-> id,
     points |-> points,
     startTime |-> points[1].timestamp,
     endTime |-> points[1].timestamp,
     metrics |-> ComputeStrokeMetrics(points)]

\* the stroke endStroke makes of the points of a gesture
NewStroke(id, points) ==
    [id |-> id,
     points |-> points,
     startTime |-> points[1].timestamp,
     endTime |-> points[Len(points)].timestamp,
     metrics |-> ComputeStrokeMetrics(points)]

\* (mutant) endStroke retains every gesture that has a point
EndStrokeKeepsShort(w) ==
    LET points == w.hook.currentPoints
        w1 == [w EXCEPT !.hook.isDrawing = FALSE, !.hook.currentPoints = << >>]
    IN  IF Len(points) < 1 THEN w1
        ELSE SetStrokes([w1 EXCEPT !.hook.strokeId = @ + 1],
                        Append(w.hook.strokes,
                               NewStroke(w.hook.strokeId, points)))

\* endStroke()
EndStroke(w) ==
    LET points == w.hook.currentPoints
        w1 == [w EXCEPT !.hook.isDrawing = FALSE, !.hook.currentPoints = << >>]
    IN  IF Len(points) < 2 THEN w1
        ELSE SetStrokes([w1 EXCEPT !.hook.strokeId = @ + 1],
                        Append(w.hook.strokes,
                               NewStroke(w.hook.strokeId, points)))

\* (mutant) undo by strokes.pop(): the array the state refers to loses its
\* last stroke, and with it the session that has this array
UndoInPlace(w) ==
    LET next == SubSeq(w.hook.strokes, 1, Len(w.hook.strokes) - 1)
        held == IF w.built = << >> THEN << >>
                ELSE IF w.built[1].sharesState
                     THEN <<[w.built[1] EXCEPT !.session.strokes = next]>>
                     ELSE w.built
    IN  [hook |-> [w.hook EXCEPT !.strokes = next], built |-> held]

\* (mutant) undo by strokes.slice(1): the first stroke goes
UndoFirst(w) ==
    SetStrokes(w, SubSeq(w.hook.strokes, 2, Len(w.hook.strokes)))

\* undo()
Undo(w) ==
    SetStrokes(w, SubSeq(w.hook.strokes, 1, Len(w.hook.strokes) - 1))

\* (mutant) clear also restarts the stroke identifiers
ClearResettingIds(w) ==
    LET w1 == SetStrokes(w, << >>) IN [w1 EXCEPT !.hook.strokeId = 0]

\* clear()
Clear(w) == SetStrokes(w, << >>)

\* (mutant) the gaps between the starts of consecutive strokes
PausesBetweenStarts(strokes) ==
    [i \in 1..(Len(strokes) - 1) |->
         strokes[i + 1].startTime - strokes[i].startTime]

\* buildSession: pauses
Pauses(strokes) ==
    [i \in 1..(Len(strokes) - 1) |->
         strokes[i + 1].startTime - strokes[i].endTime]

\* buildSession: totalPathLength
TotalPathLength(strokes) ==
    FSumSeq([i \in 1..Len(strokes) |-> strokes[i].metrics.length],
            Len(strokes))

\* (mutant) the velocity pooled over the strokes: the whole length over the
\* whole drawing time
AvgVelocityPooled(strokes) ==
    LET time == FSumSeq([i \in 1..Len(strokes) |-> strokes[i].metrics.duration],
                        Len(strokes))
    IN  IF time.m > 0 THEN FDiv(TotalPathLength(strokes), time) ELSE FZero

\* buildSession: avgVelocity
AvgVelocity(strokes) ==
    LET velocities == [i \in 1..Len(strokes) |-> strokes[i].metrics.avgVelocity]
    IN  IF Len(velocities) > 0
        THEN FDiv(FSumSeq(velocities, Len(velocities)),
                  FromInt(Len(velocities)))
        ELSE FZero

\* buildSession(prompt, canvasWidth, canvasHeight) at clock reading t, with
\* uuid what crypto.randomUUID() gives: the session it returns
BuildSession(h, t, uuid, prompt, canvasWidth, canvasHeight) ==
    [sessionId |-> uuid,
     prompt |-> prompt,
     strokes |-> h.strokes,
     startTime |-> h.sessionStart,
     endTime |-> t,
     startTimestamp |-> h.sessionTimestamp,
     canvasWidth |-> canvasWidth,
     canvasHeight |-> canvasHeight,
     totalDuration |-> t - h.sessionStart,
     strokeCount |-> Len(h.strokes),
     pausesBetweenStrokes |-> Pauses(h.strokes),
     totalPathLength |-> TotalPathLength(h.strokes),
     avgVelocity |-> AvgVelocity(h.strokes)]

InitCapture ==
    /\ InitEngine
    /\ IdleConc
    /\ IdleMetrics
    /\ hook = InitialHook
    /\ now = 0
    /\ built = << >>
    /\ IdleUI

\* the caller still makes calls while it holds the session it holds
MayCall == IF built = << >> THEN TRUE ELSE built[1].calls \in KeptCalls

\* the session the caller holds, one call older
Aged(b) == IF b = << >> THEN << >> ELSE <<[b[1] EXCEPT !.calls = @ + 1]>>

\* time passes
Tick ==
    /\ \E i \in 1..(Len(ClockReadings) - 1) :
           now = ClockReadings[i] /\ now' = ClockReadings[i + 1]
    /\ UNCHANGED <<engineVars, concVars, metricVars, uiVars, hook, built>>

StartSessionCall ==
    /\ MayCall
    /\ \E wall \in WallTimes :
           LET w == StartSession(World(hook, built), now, wall)
           IN  hook' = w.hook /\ built' = Aged(w.built)
    /\ UNCHANGED <<engineVars, concVars, metricVars, uiVars, now>>

BeginStrokeCall ==
    /\ MayCall
    /\ LET w == BeginStroke(World(hook, built))
       IN  hook' = w.hook /\ built' = Aged(w.built)
    /\ UNCHANGED <<engineVars, concVars, metricVars, uiVars, now>>

AddPointCall ==
    /\ MayCall
    /\ Len(hook.currentPoints) < MaxBuf
    /\ LET w == AddPoint(World(hook, built), ToPoint(PointerAt(now), now))
       IN  hook' = w.hook /\ built' = Aged(w.built)
    /\ UNCHANGED <<engineVars, concVars, metricVars, uiVars, now>>

EndStrokeCall ==
    /\ MayCall
    /\ IF Len(hook.currentPoints) < 2 THEN TRUE ELSE hook.strokeId < MaxStrokes
    /\ LET w == EndStroke(World(hook, built))
       IN  hook' = w.hook /\ built' = Aged(w.built)
    /\ UNCHANGED <<engineVars, concVars, metricVars, uiVars, now>>

UndoCall ==
    /\ MayCall
    /\ LET w == Undo(World(hook, built))
       IN  hook' = w.hook /\ built' = Aged(w.built)
    /\ UNCHANGED <<engineVars, concVars, metricVars, uiVars, now>>

ClearCall ==
    /\ MayCall
    /\ LET w == Clear(World(hook, built))
       IN  hook' = w.hook /\ built' = Aged(w.built)
    /\ UNCHANGED <<engineVars, concVars, metricVars, uiVars, now>>

\* buildSession is called and the caller holds what it returns
BuildSessionCall ==
    /\ \E uuid \in SessionIds :
           /\ built # << >> => uuid # built[1].session.sessionId
           /\ built' = <<[session |-> BuildSession(hook, now, uuid, Prompt,
                                                   CANVAS_W, CANVAS_H),
                          sharesState |-> TRUE,
                          calls |-> 0]>>
    /\ UNCHANGED <<engineVars, concVars, metricVars, uiVars, hook, now>>

\* the caller lets go of the session (setSession(null))
DropSession ==
    /\ built # << >>
    /\ built' = << >>
    /\ UNCHANGED <<engineVars, concVars, metricVars, uiVars, hook, now>>

NextCapture ==
    \/ Tick
    \/ StartSessionCall
    \/ BeginStrokeCall
    \/ AddPointCall
    \/ EndStrokeCall
    \/ UndoCall
    \/ ClearCall
    \/ BuildSessionCall
    \/ DropSession

SpecCapture == InitCapture /\ [][NextCapture]_vars

-----------------------------------------------------------------------------
(* C14 *)

\* C14: in every session buildSession returned, strokeCount is the length of
\* the stroke list, the pause list has max(strokeCount - 1, 0) entries, and
\* pauses[i] = strokes[i+1].startTime - strokes[i].endTime; strokes A
\* (end = 100) and B (start = 150) give the pauses [50].
C14_Pauses ==
    built # << >> =>
        LET s == built[1].session
            n == Len(s.strokes)
        IN  /\ s.strokeCount = n
            /\ Len(s.pausesBetweenStrokes) = (IF n >= 1 THEN n - 1 ELSE 0)
            /\ \A i \in 1..(n - 1) :
                   s.pausesBetweenStrokes[i] =
                       s.strokes[i + 1].startTime - s.strokes[i].endTime
            /\ (n = 2 /\ s.strokes[1].endTime = 100
                      /\ s.strokes[2].startTime = 150) =>
                   s.pausesBetweenStrokes = <<50>>

\* a session was built of a stroke drawn from 0 to 100 ms and a stroke drawn
\* at 150 ms: pauses [50]
C14_Witness ==
    /\ built # << >>
    /\ built[1].session.strokeCount = 2
    /\ built[1].session.strokes[1].startTime = 0
    /\ built[1].session.strokes[1].id = 0
    /\ built[1].session.strokes[2].id = 1
    /\ built[1].session.pausesBetweenStrokes = <<50>>

-----------------------------------------------------------------------------
(* C15 *)

\* C15: in every session buildSession returned, totalPathLength is the sum
\* of the strokes' metrics.length (in order, from 0) and avgVelocity is the
\* mean of the strokes' metrics.avgVelocity, each stroke counting once; with
\* no stroke, strokeCount = 0, the pauses are empty and both are 0.
C15_Aggregates ==
    built # << >> =>
        LET s == built[1].session
            n == Len(s.strokes)
            lengths == [i \in 1..n |-> s.strokes[i].metrics.length]
            means == [i \in 1..n |-> s.strokes[i].metrics.avgVelocity]
        IN  /\ s.totalPathLength = FSumSeq(lengths, n)
            /\ IsMeanOf(s.avgVelocity, means)
            /\ n = 0 =>
                   /\ s.strokeCount = 0
                   /\ s.pausesBetweenStrokes = << >>
                   /\ s.totalPathLength = FromInt(0)
                   /\ s.avgVelocity = FromInt(0)

\* a session was built of a stroke of 10 px in 100 ms and one of 20 px in
\* 50 ms: the mean of 1/10 and 2/5, not 30 px / 150 ms
C15_Witness ==
    /\ built # << >>
    /\ built[1].session.strokeCount = 2
    /\ built[1].session.totalPathLength = FromInt(30)
    /\ built[1].session.avgVelocity =
           FDiv(FAdd(FDiv(FromInt(1), FromInt(10)),
                     FDiv(FromInt(2), FromInt(5))), FromInt(2))
    /\ built[1].session.avgVelocity # FDiv(FromInt(30), FromInt(150))

-----------------------------------------------------------------------------
(* C16 *)

\* C16: a session buildSession returned is not changed by any later call of
\* the hook (startSession, beginStroke, addPoint, endStroke, undo, clear) nor
\* by time passing, as long as the caller holds it: its stroke list, the
\* strokes' points, its pauses and its other fields stay what they were.
C16_SessionImmutable ==
    [][ (/\ built # << >>
         /\ built' # << >>
         /\ built'[1].session.sessionId = built[1].session.sessionId)
        => built'[1].session = built[1].session ]_vars

\* a session of one stroke is still held after two calls that emptied the
\* hook's stroke list
C16_Witness ==
    /\ built # << >>
    /\ built[1].calls = 2
    /\ ~built[1].sharesState
    /\ built[1].session.strokeCount = 1
    /\ Len(built[1].session.strokes[1].points) = 2
    /\ hook.strokes = << >>

-----------------------------------------------------------------------------
(* C17 *)

\* every stroke of the list has at least 2 points
AllRetainable(strokes) ==
    \A i \in 1..Len(strokes) : Len(strokes[i].points) >= 2

\* a step that ends a gesture: the buffer is emptied or drawing stops, and
\* drawing is off afterwards (beginStroke, the other step that empties the
\* buffer, turns drawing on)
EndsGesture ==
    /\ hook.isDrawing \/ hook.currentPoints # << >>
    /\ ~hook'.isDrawing
    /\ hook'.currentPoints = << >>

\* C17: endStroke with 0 or 1 captured points adds nothing to the stroke list
\* and consumes no stroke identifier, while endStroke with 2 or more points
\* appends exactly one stroke holding those points; so every stroke of the
\* stroke list, and of every session built of it, has at least 2 points.
C17_ShortGestureDiscarded ==
    /\ [](/\ AllRetainable(hook.strokes)
          /\ built # << >> => AllRetainable(built[1].session.strokes))
    /\ [][ EndsGesture =>
             IF Len(hook.currentPoints) < 2
             THEN /\ hook'.strokes = hook.strokes
                  /\ hook'.strokeId = hook.strokeId
             ELSE /\ Len(hook'.strokes) = Len(hook.strokes) + 1
                  /\ hook'.strokes[Len(hook'.strokes)].points
                         = hook.currentPoints
                  /\ hook'.strokeId = hook.strokeId + 1 ]_vars

\* a gesture of one point is in progress after a stroke was retained, and
\* ending it leaves the list of one stroke and the next identifier as they are
C17_Witness ==
    /\ hook.isDrawing
    /\ Len(hook.currentPoints) = 1
    /\ Len(hook.strokes) = 1
    /\ hook.strokeId = 1
    /\ LET after == EndStroke(World(hook, built)).hook
       IN  /\ after.strokes = hook.strokes
           /\ after.strokeId = 1
           /\ after.currentPoints = << >>
           /\ ~after.isDrawing

-----------------------------------------------------------------------------
(* C18 *)

\* the ids of the list are strictly increasing in drawing order, from 0 on
IdsIncreasing(strokes) ==
    /\ \A i \in 1..Len(strokes) : strokes[i].id >= 0
    /\ \A i \in 1..(Len(strokes) - 1) : strokes[i].id < strokes[i + 1].id

\* C18: in every stroke list (the hook's, after any undo and clear, and a
\* built session's) the ids are pairwise distinct and strictly increasing in
\* drawing order and all below the next id to assign; a retained stroke gets
\* the next id, which then grows by one; startSession empties the list and
\* restarts the ids at 0; and the next id goes down in no other step, so the
\* id of a stroke removed by undo or clear is not assigned again before the
\* next startSession.
C18_StrokeIds ==
    /\ [](/\ IdsIncreasing(hook.strokes)
          /\ \A i \in 1..Len(hook.strokes) :
                 hook.strokes[i].id < hook.strokeId
          /\ built # << >> => IdsIncreasing(built[1].session.strokes))
    /\ [][ /\ Len(hook'.strokes) > Len(hook.strokes) =>
                /\ hook'.strokes[Len(hook'.strokes)].id = hook.strokeId
                /\ hook'.strokeId = hook.strokeId + 1
                /\ hook.strokes = << >> /\ hook.strokeId = 0 =>
                       hook'.strokes[1].id = 0
           /\ (\/ hook'.sessionStart # hook.sessionStart
               \/ hook'.sessionTimestamp # hook.sessionTimestamp) =>
                /\ hook'.strokes = << >>
                /\ hook'.strokeId = 0
           /\ hook'.strokeId < hook.strokeId =>
                /\ hook'.strokeId = 0
                /\ hook'.strokes = << >>
                /\ hook'.sessionStart = now
                /\ hook'.sessionTimestamp \in WallTimes ]_vars

\* the stroke of id 0 was removed and the stroke drawn after it has id 1
C18_Witness ==
    /\ Len(hook.strokes) = 1
    /\ hook.strokes[1].id = 1
    /\ hook.strokeId = 2

-----------------------------------------------------------------------------
(* C19 *)

\* the timestamps of the points do not go down in point order
NonDecreasing(points) ==
    \A i \in 1..(Len(points) - 1) :
        points[i].timestamp <= points[i + 1].timestamp

\* C19: with every point stamped by the monotonic clock when it is captured,
\* the timestamps of the points of the gesture in progress, of every stroke
\* of the stroke list and of every stroke of a built session are
\* non-decreasing in point order, so no segment has a negative time delta
\* (a zero delta is possible).
C19_TimestampsNonDecreasing ==
    /\ NonDecreasing(hook.currentPoints)
    /\ \A i \in 1..Len(hook.strokes) :
           /\ NonDecreasing(hook.strokes[i].points)
           /\ \A k \in 2..Len(hook.strokes[i].points) :
                  Dt(hook.strokes[i].points, k) >= 0
    /\ built # << >> =>
           \A i \in 1..Len(built[1].session.strokes) :
               NonDecreasing(built[1].session.strokes[i].points)

\* a stroke whose timestamps grow (0, 100) is followed by a stroke of two
\* points captured at the same clock reading (150, 150)
C19_Witness ==
    /\ Len(hook.strokes) = 2
    /\ hook.strokes[1].points[1].timestamp = 0
    /\ hook.strokes[1].points[2].timestamp = 100
    /\ hook.strokes[2].points[1].timestamp = 150
    /\ hook.strokes[2].points[2].timestamp = 150

-----------------------------------------------------------------------------
(* C20 *)

\* the stroke's times are those of its first and last point, and its
\* metrics' duration is their difference
TimesOfPoints(stroke) ==
    /\ stroke.startTime = stroke.points[1].timestamp
    /\ stroke.endTime = stroke.points[Len(stroke.points)].timestamp
    /\ stroke.metrics.duration = FromInt(stroke.endTime - stroke.startTime)

\* every stroke of the list after the step was in the list before it at the
\* same place, or its metrics are computeStrokeMetrics of its points
KeptOrComputed(before, after) ==
    \A i \in 1..Len(after) :
        IF i <= Len(before) /\ after[i] = before[i] THEN TRUE
        ELSE after[i].metrics = ComputeStrokeMetrics(after[i].points)

\* C20: for every stroke of the stroke list (and of a built session),
\* startTime is the timestamp of its first point, endTime the timestamp of
\* its last point and metrics.duration = endTime - startTime, in every state;
\* and metrics is computeStrokeMetrics of its points: the list starts empty,
\* every step keeps the strokes it had or puts in strokes with the computed
\* metrics, and a session is built of the strokes of the list.
C20_StrokeTimes ==
    /\ [](/\ \A i \in 1..Len(hook.strokes) : TimesOfPoints(hook.strokes[i])
          /\ built # << >> =>
                 \A i \in 1..Len(built[1].session.strokes) :
                     TimesOfPoints(built[1].session.strokes[i]))
    /\ [][ /\ KeptOrComputed(hook.strokes, hook'.strokes)
           /\ built' # << >> =>
                  IF built # << >>
                  THEN IF built'[1].session.strokes = built[1].session.strokes
                       THEN TRUE
                       ELSE built'[1].session.strokes = hook.strokes
                  ELSE built'[1].session.strokes = hook.strokes ]_vars

\* a stroke drawn from 0 to 150 ms over 30 px is in the list: duration 150,
\* length 30, and its metrics are those computed of its points
C20_Witness ==
    /\ Len(hook.strokes) >= 1
    /\ hook.strokes[1].startTime = 0
    /\ hook.strokes[1].endTime = 150
    /\ hook.strokes[1].metrics.duration = FromInt(150)
    /\ hook.strokes[1].metrics.length = FromInt(30)
    /\ hook.strokes[1].metrics = ComputeStrokeMetrics(hook.strokes[1].points)

-----------------------------------------------------------------------------
(* The widget: DrawCaptcha and its Canvas (SpecUI)                           *)
(*                                                                           *)
(* ui holds the React state and refs of DrawCaptcha (phase, challenge,       *)
(* hasRandomised), the pointerDown ref of the mounted Canvas, the sessions   *)
(* handleSubmit handed to scoringEngine.evaluate for the submission on       *)
(* display, and, of the world outside, the gesture each pointer is making:   *)
(* contact[p] is << >> while pointer p makes no gesture on the canvas, and   *)
(* otherwise the samples the canvas was sent for p since p went down.  What  *)
(* the Canvas draws (lastPt, prevStrokeLen, dpr, the 2D context) is not      *)
(* modelled.  A handler runs to its end, and its state updates are rendered, *)
(* before the next event is dispatched.                                      *)

MaxGesture == 3      \* samples of one gesture, and points in the buffer
MaxSamples == 2      \* coalesced samples one pointer-move carries at most

\* the pointers of the device: a mouse or a pen (SpecUI), or two fingers, or
\* a finger and a hovering mouse (SpecTouch)
OnePointer == {1}
TwoPointers == {1, 2}

\* the pointers of the device the widget is shown on
PointersOf(u) == DOMAIN u.contact

\* with two pointers, gestures are a sample shorter and moves carry a sample
\* less
GestureLimit(u) ==
    IF PointersOf(u) = OnePointer THEN MaxGesture ELSE MaxGesture - 1
SamplesLimit(u) ==
    IF PointersOf(u) = OnePointer THEN MaxSamples ELSE MaxSamples - 1

\* the ids of the strokes drawn on the widget in one session
WidgetStrokeIds == {0, 1}

\* two of the challenges
Challenges ==
    { [instruction |-> "Draw a flower", emoji |-> "U+1F338"],
      [instruction |-> "Draw the number 5", emoji |-> "5"] }

\* the challenge of the first render: challenges[0]
FirstChallenge == [instruction |-> "Draw a flower", emoji |-> "U+1F338"]

\* `${challenge.instruction} ${challenge.emoji}`
PromptOf(challenge) == challenge.instruction \o " " \o challenge.emoji

\* canvas.getBoundingClientRect(): the canvas laid out at its logical size
Rect == [left |-> 8, top |-> 8, width |-> 500, height |-> 375]

\* where pointer p is on the screen at clock reading t, and where it was
\* back samples earlier: each pointer moves to the right on its own stretch
\* of one horizontal line
ClientPos(p, t, back) ==
    <<Rect.left + 10 + 45 * (p - 1) + t \div 5 - back, Rect.top + 50>>

\* the pointer a point of the canvas comes from
PointerOf(point) == IF point.x < 50 THEN 1 ELSE 2

\* (mutant) the point is stamped with the time of the event, taken by
\* another clock that runs 50 ms behind
ToCanvasPointEventTime(client, t) ==
    Point((client[1] - Rect.left) * (CANVAS_W \div Rect.width),
          (client[2] - Rect.top) * (CANVAS_H \div Rect.height),
          IF t >= 50 THEN t - 50 ELSE 0)

\* the CapturePoint of a pointer event at clock reading t
ToCanvasPoint(client, t) ==
    Point((client[1] - Rect.left) * (CANVAS_W \div Rect.width),
          (client[2] - Rect.top) * (CANVAS_H \div Rect.height),
          t)

\* the events a pointer-move of pointer p carrying k coalesced samples is
\* handled as: the coalesced samples, oldest first, or the event itself
MoveEvents(p, t, k) ==
    IF k > 0 THEN [j \in 1..k |-> ClientPos(p, t, k - j)]
    ELSE <<ClientPos(p, t, 0)>>

InitialUI(pointers) ==
    [phase |-> "idle",
     challenge |-> FirstChallenge,
     hasRandomised |-> FALSE,
     pointerDown |-> FALSE,
     evaluated |-> << >>,
     contact |-> [p \in pointers |-> << >>]]

\* the widget: the hook, the session state and ui
Widget(h, b, u) == [hook |-> h, built |-> b, ui |-> u]

\* a call of the hook made by the widget
Hooked(u, w) == [hook |-> w.hook, built |-> w.built, ui |-> u.ui]

RECURSIVE AddPoints(_, _, _)
\* onStrokePoint for the points from the i-th on
AddPoints(w, points, i) ==
    IF i > Len(points) THEN w
    ELSE AddPoints(AddPoint(w, points[i]), points, i + 1)

\* (mutant) handlePointerDown without onStrokeStart
HandlePointerDownKeepsBuffer(u, client, t) ==
    LET pt == ToCanvasPoint(client, t)
        w == AddPoint(World(u.hook, u.built), pt)
    IN  [Hooked(u, w) EXCEPT !.ui.pointerDown = TRUE]

\* handlePointerDown (isActive holds of a mounted Canvas)
HandlePointerDown(u, client, t) ==
    LET pt == ToCanvasPoint(client, t)
        w == AddPoint(BeginStroke(World(u.hook, u.built)), pt)
    IN  [Hooked(u, w) EXCEPT !.ui.pointerDown = TRUE]

\* (mutant) handlePointerMove takes the most recent sample only
HandlePointerMoveLatest(u, events, t) ==
    IF ~u.ui.pointerDown THEN u
    ELSE Hooked(u, AddPoint(World(u.hook, u.built),
                            ToCanvasPoint(events[Len(events)], t)))

\* handlePointerMove, events being the coalesced events or the event itself
HandlePointerMove(u, events, t) ==
    IF ~u.ui.pointerDown THEN u
    ELSE LET pts == [j \in 1..Len(events) |-> ToCanvasPoint(events[j], t)]
         IN  Hooked(u, AddPoints(World(u.hook, u.built), pts, 1))

\* handlePointerUp
HandlePointerUp(u) ==
    IF ~u.ui.pointerDown THEN u
    ELSE [Hooked(u, EndStroke(World(u.hook, u.built)))
             EXCEPT !.ui.pointerDown = FALSE]

\* the handler that does nothing
NoHandler(u) == u

\* (mutant) the canvas has no handler for pointer-cancel
OnEndsOnUpOnly(type, u) ==
    IF type = "pointerup" THEN HandlePointerUp(u) ELSE NoHandler(u)

\* onPointerUp, onPointerCancel, onPointerLeave of the canvas element
On(type, u) ==
    IF type \in {"pointerup", "pointercancel", "pointerleave"}
    THEN HandlePointerUp(u)
    ELSE NoHandler(u)

\* (mutant) handleStart without startSession
HandleStartKeepsSession(u, pick, t, wall) ==
    [u EXCEPT !.ui.challenge = IF u.ui.hasRandomised THEN @ ELSE pick,
              !.ui.hasRandomised = TRUE,
              !.ui.phase = "drawing"]

\* handleStart, pick being what pickChallenge() gives
HandleStart(u, pick, t, wall) ==
    LET w == StartSession(World(u.hook, u.built), t, wall)
    IN  [Hooked(u, w) EXCEPT
            !.ui.challenge = IF u.ui.hasRandomised THEN @ ELSE pick,
            !.ui.hasRandomised = TRUE,
            !.ui.phase = "drawing"]

\* handleClear
HandleClear(u) == Hooked(u, Clear(World(u.hook, u.built)))

\* the Undo button: undo
HandleUndo(u) == Hooked(u, Undo(World(u.hook, u.built)))

\* handleSubmit, uuid being what crypto.randomUUID() gives
HandleSubmit(u, t, uuid) ==
    LET data == BuildSession(u.hook, t, uuid, PromptOf(u.ui.challenge),
                             CANVAS_W, CANVAS_H)
    IN  [u EXCEPT !.built = <<[session |-> data, sharesState |-> TRUE,
                               calls |-> 0]>>,
                  !.ui.evaluated = Append(@, data),
                  !.ui.phase = "submitted"]

\* handleRetry
HandleRetry(u, pick) ==
    LET w == Clear(World(u.hook, u.built))
    IN  [hook |-> w.hook,
         built |-> << >>,
         ui |-> [u.ui EXCEPT !.challenge = pick, !.phase = "idle"]]

\* the Canvas is rendered in the drawing phase only: leaving the phase
\* unmounts it, and the next one starts with pointerDown = false; the
\* gestures the pointers were making are no gestures on the new canvas
Unmounted(u) ==
    [u EXCEPT !.ui.pointerDown = FALSE,
              !.ui.contact = [p \in PointersOf(u.ui) |-> << >>]]

\* the widget is shown on a device with one pointer
InitUI ==
    /\ InitEngine
    /\ IdleConc
    /\ IdleMetrics
    /\ hook = InitialHook
    /\ now = 0
    /\ built = << >>
    /\ ui = InitialUI(OnePointer)

\* the widget is shown on a device with two pointers
InitTouch ==
    /\ InitEngine
    /\ IdleConc
    /\ IdleMetrics
    /\ hook = InitialHook
    /\ now = 0
    /\ built = << >>
    /\ ui = InitialUI(TwoPointers)

\* the Start Drawing button
StartClick ==
    /\ ui.phase = "idle"
    /\ \E pick \in Challenges, wall \in WallTimes :
       \E u \in {HandleStart(Widget(hook, built, ui), pick, now, wall)} :
           hook' = u.hook /\ built' = u.built /\ ui' = u.ui
    /\ UNCHANGED <<engineVars, concVars, metricVars, now>>

\* pointer p touches the canvas
PointerDown(p) ==
    /\ ui.phase = "drawing"
    /\ ui.contact[p] = << >>
    /\ \E u \in {HandlePointerDown(Widget(hook, built, ui),
                                   ClientPos(p, now, 0), now)} :
           /\ hook' = u.hook
           /\ built' = u.built
           /\ ui' = [u.ui EXCEPT !.contact[p] =
                        <<ToCanvasPoint(ClientPos(p, now, 0), now)>>]
    /\ UNCHANGED <<engineVars, concVars, metricVars, now>>

\* pointer p moves over the canvas, in contact or hovering, and the event
\* carries k coalesced samples
PointerMove(p, k) ==
    /\ ui.phase = "drawing"
    /\ ui.pointerDown =>
           Len(hook.currentPoints) + Len(MoveEvents(p, now, k))
               <= GestureLimit(ui)
    /\ ui.contact[p] # << >> =>
           Len(ui.contact[p]) + Len(MoveEvents(p, now, k)) <= GestureLimit(ui)
    /\ \E u \in {HandlePointerMove(Widget(hook, built, ui),
                                   MoveEvents(p, now, k), now)} :
           /\ hook' = u.hook
           /\ built' = u.built
           /\ ui' = IF ui.contact[p] # << >>
                    THEN [u.ui EXCEPT !.contact[p] = @ \o
                             [j \in 1..Len(MoveEvents(p, now, k)) |->
                                  ToCanvasPoint(MoveEvents(p, now, k)[j], now)]]
                    ELSE u.ui
    /\ UNCHANGED <<engineVars, concVars, metricVars, now>>

\* the strokes of a session are bounded
MayEnd ==
    IF ui.pointerDown /\ Len(hook.currentPoints) >= 2
    THEN hook.strokeId \in WidgetStrokeIds
    ELSE TRUE

\* pointer p is lifted
PointerUp(p) ==
    /\ ui.phase = "drawing"
    /\ ui.contact[p] # << >>
    /\ MayEnd
    /\ \E u \in {On("pointerup", Widget(hook, built, ui))} :
           /\ hook' = u.hook
           /\ built' = u.built
           /\ ui' = [u.ui EXCEPT !.contact[p] = << >>]
    /\ UNCHANGED <<engineVars, concVars, metricVars, now>>

\* the system takes pointer p away (a palm, a system gesture)
PointerCancel(p) ==
    /\ ui.phase = "drawing"
    /\ ui.contact[p] # << >>
    /\ MayEnd
    /\ \E u \in {On("pointercancel", Widget(hook, built, ui))} :
           /\ hook' = u.hook
           /\ built' = u.built
           /\ ui' = [u.ui EXCEPT !.contact[p] = << >>]
    /\ UNCHANGED <<engineVars, concVars, metricVars, now>>

\* pointer p, in contact or hovering, leaves the canvas
PointerLeave(p) ==
    /\ ui.phase = "drawing"
    /\ MayEnd
    /\ \E u \in {On("pointerleave", Widget(hook, built, ui))} :
           /\ hook' = u.hook
           /\ built' = u.built
           /\ ui' = [u.ui EXCEPT !.contact[p] = << >>]
    /\ UNCHANGED <<engineVars, concVars, metricVars, now>>

\* the Clear button, enabled while there are strokes
ClearClick ==
    /\ ui.phase = "drawing"
    /\ Len(hook.strokes) # 0
    /\ \E u \in {HandleClear(Widget(hook, built, ui))} :
           hook' = u.hook /\ built' = u.built /\ ui' = u.ui
    /\ UNCHANGED <<engineVars, concVars, metricVars, now>>

\* the Undo button, enabled while there are strokes
UndoClick ==
    /\ ui.phase = "drawing"
    /\ Len(hook.strokes) # 0
    /\ \E u \in {HandleUndo(Widget(hook, built, ui))} :
           hook' = u.hook /\ built' = u.built /\ ui' = u.ui
    /\ UNCHANGED <<engineVars, concVars, metricVars, now>>

\* the Submit button, enabled while there are strokes
SubmitClick ==
    /\ ui.phase = "drawing"
    /\ Len(hook.strokes) # 0
    /\ \E uuid \in SessionIds :
       \E u \in {Unmounted(HandleSubmit(Widget(hook, built, ui), now, uuid))} :
           hook' = u.hook /\ built' = u.built /\ ui' = u.ui
    /\ UNCHANGED <<engineVars, concVars, metricVars, now>>

\* the Try Again button; the sessions handed to the engine for the
\* submission go with the session
RetryClick ==
    /\ ui.phase = "submitted"
    /\ built # << >>
    /\ \E pick \in Challenges :
       \E u \in {HandleRetry(Widget(hook, built, ui), pick)} :
           /\ hook' = u.hook
           /\ built' = u.built
           /\ ui' = [u.ui EXCEPT !.evaluated = << >>]
    /\ UNCHANGED <<engineVars, concVars, metricVars, now>>

NextUI ==
    \/ Tick
    \/ StartClick
    \/ \E p \in PointersOf(ui) : PointerDown(p)
    \/ \E p \in PointersOf(ui), k \in 0..SamplesLimit(ui) : PointerMove(p, k)
    \/ \E p \in PointersOf(ui) : PointerUp(p)
    \/ \E p \in PointersOf(ui) : PointerCancel(p)
    \/ \E p \in PointersOf(ui) : PointerLeave(p)
    \/ ClearClick
    \/ UndoClick
    \/ SubmitClick
    \/ RetryClick

SpecUI == InitUI /\ [][NextUI]_vars

SpecTouch == InitTouch /\ [][NextUI]_vars

-----------------------------------------------------------------------------
(* C21 *)

ReleaseEvents == {"pointerup", "pointercancel", "pointerleave"}

\* C21: on the canvas, pointer-cancel and pointer-leave do what pointer-up
\* does: with the pointer down they end the gesture, which adds the buffered
\* points as one stroke when there are at least 2 of them and adds nothing
\* otherwise; a second release event after the first has no effect, so the
\* gesture is ended once; and with no pointer down each of them has no effect.
C21_ReleaseEventsAlike ==
    LET u == Widget(hook, built, ui)
        up == On("pointerup", u)
        n == Len(hook.strokes)
    IN  /\ On("pointercancel", u) = up
        /\ On("pointerleave", u) = up
        /\ \A type \in ReleaseEvents : On(type, up) = up
        /\ ~ui.pointerDown => up = u
        /\ ui.pointerDown =>
               /\ ~up.ui.pointerDown
               /\ up.hook.currentPoints = << >>
               /\ IF Len(hook.currentPoints) < 2
                  THEN /\ up.hook.strokes = hook.strokes
                       /\ up.hook.strokeId = hook.strokeId
                  ELSE /\ Len(up.hook.strokes) = n + 1
                       /\ SubSeq(up.hook.strokes, 1, n) = hook.strokes
                       /\ up.hook.strokes[n + 1].points = hook.currentPoints

\* a gesture of two samples is in progress after a stroke was retained, and
\* pointer-cancel makes it the second stroke
C21_Witness ==
    /\ ui.pointerDown
    /\ Len(hook.currentPoints) = 2
    /\ Len(hook.strokes) = 1
    /\ LET after == On("pointercancel", Widget(hook, built, ui))
       IN  /\ Len(after.hook.strokes) = 2
           /\ after.hook.strokes[2].points = hook.currentPoints
           /\ ~after.ui.pointerDown

-----------------------------------------------------------------------------
(* C22 *)

\* the one pointer of the device of SpecUI
ThePointer == CHOOSE p \in OnePointer : TRUE

-----------------------------------------------------------------------------
(* C23 *)

\* the points come from one pointer
OfOnePointer(points) ==
    \A j \in 1..Len(points), k \in 1..Len(points) :
        PointerOf(points[j]) = PointerOf(points[k])

\* C23: with two pointers on the canvas, every stroke holds the samples of
\* one pointer only; a stroke added to the list is the whole gesture, from
\* down to release, of the pointer released in the step; and when a pointer
\* goes down while the buffer holds the gesture in progress of another
\* pointer, the buffer still holds those samples after the step.  The widget
\* does not do this: see C23 in the results.
C23_OneGesturePerStroke ==
    /\ [](\A i \in 1..Len(hook.strokes) :
              OfOnePointer(hook.strokes[i].points))
    /\ [][ /\ Len(hook'.strokes) = Len(hook.strokes) + 1 =>
                \E p \in PointersOf(ui) :
                    /\ ui.contact[p] # << >>
                    /\ ui'.contact[p] = << >>
                    /\ hook'.strokes[Len(hook'.strokes)].points
                           = ui.contact[p]
           /\ \A p \in PointersOf(ui), q \in PointersOf(ui) :
                (/\ p # q
                 /\ ui.contact[q] = << >>
                 /\ ui'.contact[q] # << >>
                 /\ ui.contact[p] # << >>
                 /\ hook.currentPoints = ui.contact[p]) =>
                    hook'.currentPoints = ui'.contact[p] ]_vars

-----------------------------------------------------------------------------
(* C24 *)

\* the points of the k most recent samples of pointer p at clock reading t,
\* oldest first
SamplePoints(p, t, k) ==
    [j \in 1..k |-> ToCanvasPoint(ClientPos(p, t, k - j), t)]

-----------------------------------------------------------------------------
(* C25 *)

\* from <= the first stroke's start <= its end <= the next stroke's start
\* <= ... <= the last stroke's end <= to
TimeOrdered(from, strokes, to) ==
    /\ \A i \in 1..Len(strokes) :
           /\ from <= strokes[i].startTime
           /\ strokes[i].startTime <= strokes[i].endTime
           /\ strokes[i].endTime <= to
    /\ \A i \in 1..(Len(strokes) - 1) :
           strokes[i].endTime <= strokes[i + 1].startTime

\* C25: on the widget, with the one clock stamping the session and the
\* points, the strokes of the list lie in time order between the session's
\* start and the present, also after undo and clear; so in every session
\* built, startTime <= each stroke's startTime <= its endTime <= the next
\* stroke's startTime <= endTime, every pause is >= 0 and totalDuration >= 0.
C25_TimeOrdered ==
    /\ TimeOrdered(hook.sessionStart, hook.strokes, now)
    /\ built # << >> =>
           LET s == built[1].session IN
           /\ TimeOrdered(s.startTime, s.strokes, s.endTime)
           /\ s.startTime <= s.endTime
           /\ s.totalDuration >= 0
           /\ \A i \in 1..Len(s.pausesBetweenStrokes) :
                  s.pausesBetweenStrokes[i] >= 0

\* a session started at 0 and submitted at 150 has a stroke drawn at 0 and a
\* stroke drawn from 100 to 150: the pause is 100 and the duration 150
C25_Witness ==
    /\ built # << >>
    /\ built[1].session.startTime = 0
    /\ built[1].session.endTime = 150
    /\ built[1].session.totalDuration = 150
    /\ built[1].session.strokeCount = 2
    /\ built[1].session.strokes[1].endTime = 0
    /\ built[1].session.strokes[2].startTime = 100
    /\ built[1].session.strokes[2].endTime = 150
    /\ built[1].session.pausesBetweenStrokes = <<100>>

-----------------------------------------------------------------------------
(* getCombinedScore on numbers as the program has them (SpecScore)

   Combine above is the loop of getCombinedScore over exact fractions.  The
   program's numbers are rounded after every operation; CombineRounded is the
   same loop with every product, sum and quotient rounded.  SpecScore draws
   the mapping evaluate returned and applies the loop to it. *)

\* a * b
FMul(a, b) ==
    IF a.m = 0 \/ b.m = 0 THEN FZero ELSE FRound(a.m * b.m, a.e + b.e)

\* the number written n/d in the source of an algorithm
FRat(n, d) == FDiv(FromInt(n), FromInt(d))

\* what the algorithms return: scores -1, 0, 0.1, 1 and 2 (out of range)
\* with confidences 0, 0.1 and 1
RoundedResults ==
    {Result(s, c, {}, "ok") :
        s \in {FromInt(-1), FZero, FRat(1, 10), FromInt(1), FromInt(2)},
        c \in {FZero, FRat(1, 10), FromInt(1)}}

\* the mappings evaluate can return: one entry per name, in insertion order
ResultMaps ==
    {[i \in 1..Len(q) |-> [key |-> "scorer-" \o ToString(i), value |-> q[i]]] :
        q \in SeqsUpTo(RoundedResults, MaxAlgos)}

RECURSIVE SumRoundedFrom(_, _, _)
\* the loop over results.values()
SumRoundedFrom(results, i, tot) ==
    IF i > Len(results) THEN tot
    ELSE LET r == results[i].value IN
         SumRoundedFrom(results, i + 1,
             IF FLe(FZero, r.score)
             THEN [score  |-> FAdd(tot.score, FMul(r.score, r.confidence)),
                   weight |-> FAdd(tot.weight, r.confidence)]
             ELSE tot)

RECURSIVE SumRoundedAllFrom(_, _, _)
SumRoundedAllFrom(results, i, tot) ==
    IF i > Len(results) THEN tot
    ELSE LET r == results[i].value IN
         SumRoundedAllFrom(results, i + 1,
             [score  |-> FAdd(tot.score, FMul(r.score, r.confidence)),
              weight |-> FAdd(tot.weight, r.confidence)])

\* (mutant) the results with a negative score are weighed as well
CombineRoundedCountsSentinel(results) ==
    IF Len(results) = 0 THEN FromInt(-1)
    ELSE LET tot == SumRoundedAllFrom(results, 1,
                                      [score |-> FZero, weight |-> FZero])
         IN  IF FLt(FZero, tot.weight) THEN FDiv(tot.score, tot.weight)
             ELSE FromInt(-1)

\* getCombinedScore after evaluate returned results
CombineRounded(results) ==
    IF Len(results) = 0 THEN FromInt(-1)
    ELSE LET tot == SumRoundedFrom(results, 1,
                                   [score |-> FZero, weight |-> FZero])
         IN  IF FLt(FZero, tot.weight) THEN FDiv(tot.score, tot.weight)
             ELSE FromInt(-1)

InitScore ==
    /\ algorithms = << >>
    /\ evalLog = NoLog
    /\ IdleConc
    /\ IdleMetrics
    /\ IdleCapture
    /\ IdleUI
    /\ ret \in {[op |-> "evaluated", results |-> m] : m \in ResultMaps}

CombineCall ==
    /\ ret.op = "evaluated"
    /\ ret' = [op |-> "getCombinedScore", results |-> ret.results,
               value |-> CombineRounded(ret.results)]
    /\ UNCHANGED <<algorithms, evalLog, concVars, metricVars, captureVars,
                   uiVars>>

NextScore == CombineCall

SpecScore == InitScore /\ [][NextScore]_vars


-----------------------------------------------------------------------------
(* C26 *)

\* every result has a score in [0, 1] or exactly -1 and a confidence in [0, 1]
ResultsInRange(results) ==
    \A i \in 1..Len(results) :
        LET r == results[i].value IN
        /\ \/ r.score = FromInt(-1)
           \/ FLe(FZero, r.score) /\ FLe(r.score, FromInt(1))
        /\ FLe(FZero, r.confidence) /\ FLe(r.confidence, FromInt(1))

\* the results that enter the mean: score >= 0 and confidence > 0
EligibleRounded(results) ==
    {i \in 1..Len(results) :
        /\ FLe(FZero, results[i].value.score)
        /\ FLt(FZero, results[i].value.confidence)}

Combined == ret.op = "getCombinedScore" /\ ResultsInRange(ret.results)

-----------------------------------------------------------------------------
(* C27 *)

\* i is the first algorithm registered under its name
FirstOfName(algos, i) == \A j \in 1..(i - 1) : algos[j].name # algos[i].name

\* the positions of the first registrations, in registration order
FirstRegistrations(algos) ==
    LET IsFirst(i) == FirstOfName(algos, i)
    IN  SelectSeq([i \in 1..Len(algos) |-> i], IsFirst)

LastIndexOfName(algos, name) ==
    CHOOSE i \in 1..Len(algos) : algos[i].name = name /\ LastOfName(algos, i)

\* what algorithm a's own call leaves behind: its result, or the sentinel
OwnResult(a, session) ==
    LET o == Score(a, session)
    IN  IF o.kind = "throw" THEN ErrorResult(o.message) ELSE o.result

\* one entry per name, placed at the name's first registration and holding
\* the result of the name's last registration
LastResults(algos, session) ==
    LET firsts == FirstRegistrations(algos)
    IN  [k \in 1..Len(firsts) |->
            LET name == algos[firsts[k]].name
            IN  [key |-> name,
                 value |-> OwnResult(algos[LastIndexOfName(algos, name)],
                                     session)]]

\* C27: when several registered algorithms share a name, the mapping of
\* evaluate has one entry for the name, at the position of its first
\* registration and holding the result (or the sentinel) of its last
\* registration; getCombinedScore is the weighted mean over exactly these
\* entries, so the results of the earlier duplicates do not enter it.
C27_LastDuplicateWins ==
    (ret.op \in {"evaluate", "getCombinedScore"}
        /\ HasDuplicateName(algorithms)) =>
        LET m == LastResults(algorithms, ret.session) IN
        /\ ret.completion = "normal"
        /\ ret.results = m
        /\ ret.op = "getCombinedScore" =>
              IF QLt(QInt(0), TotalWeight(m))
              THEN QMul(ret.value, TotalWeight(m)) = TotalScore(m)
              ELSE ret.value = QInt(-1)

\* getCombinedScore with one name registered first and last around another
\* name, the two duplicates returning different eligible results: the value
\* is the mean without the first one
C27_Witness ==
    /\ ret.op = "getCombinedScore"
    /\ Len(algorithms) = 3
    /\ algorithms[1].name = algorithms[3].name
    /\ algorithms[2].name # algorithms[1].name
    /\ LET first == OwnResult(algorithms[1], ret.session)
           last == OwnResult(algorithms[3], ret.session)
       IN  /\ first.score # last.score
           /\ QLe(QInt(0), first.score) /\ QLt(QInt(0), first.confidence)
           /\ QLe(QInt(0), last.score) /\ QLt(QInt(0), last.confidence)
           /\ ret.results[1].value = last
    /\ ret.value # QInt(-1)

-----------------------------------------------------------------------------
(* C28 *)

PhaseSteps ==
    {<<"idle", "drawing">>, <<"drawing", "submitted">>,
     <<"submitted", "idle">>}

\* the phase stays or follows idle -> drawing -> submitted -> idle
PhaseStep == ui'.phase = ui.phase \/ <<ui.phase, ui'.phase>> \in PhaseSteps

\* a step that hands a session to scoringEngine.evaluate is a submission: it
\* leaves the drawing phase with at least one retained stroke, and the one
\* session it builds, of these strokes, is the one it hands over, once
EvaluatedOncePerSubmission ==
    /\ ui'.evaluated # ui.evaluated /\ ui'.evaluated # << >> =>
          /\ ui.phase = "drawing" /\ ui'.phase = "submitted"
          /\ Len(hook.strokes) >= 1
          /\ ui.evaluated = << >>
          /\ Len(ui'.evaluated) = 1
          /\ Len(built') = 1
          /\ ui'.evaluated[1] = built'[1].session
          /\ ui'.evaluated[1].strokes = hook.strokes
          /\ ui'.evaluated[1].strokeCount = Len(hook.strokes)
    /\ ui'.phase = "submitted" /\ ui.phase # "submitted" =>
          Len(ui'.evaluated) = 1
    /\ ui.phase = "submitted" /\ ui'.phase = "submitted" =>
          ui'.evaluated = ui.evaluated

\* a drawing phase starts with an empty stroke list and next id 0
DrawingStartsEmpty ==
    ui'.phase = "drawing" /\ ui.phase # "drawing" =>
        hook'.strokes = << >> /\ hook'.strokeId = 0

\* every session the widget handed to scoringEngine.evaluate has
\* strokeCount >= 1, and there is one such session exactly in the submitted
\* phase
EvaluatedHaveStrokes ==
    /\ Len(ui.evaluated) = (IF ui.phase = "submitted" THEN 1 ELSE 0)
    /\ \A i \in 1..Len(ui.evaluated) : ui.evaluated[i].strokeCount >= 1

\* the stroke list changes only in the drawing phase
StrokesChangeWhileDrawing ==
    hook'.strokes # hook.strokes => ui.phase = "drawing"

\* the stroke list changes only in the drawing phase, or is emptied on the
\* way from submitted to idle
StrokesChangeWhileDrawingOrOnRetry ==
    hook'.strokes # hook.strokes =>
        \/ ui.phase = "drawing"
        \/ ui.phase = "submitted" /\ ui'.phase = "idle"
              /\ hook'.strokes = << >>

\* C28 as stated: the phase follows idle -> drawing -> submitted -> idle; the
\* stroke list changes (a stroke added, undone, the list cleared) only in
\* the drawing phase; a session is built and evaluated exactly once per
\* submission, from the drawing phase with at least one retained stroke;
\* every session handed to scoringEngine.evaluate has strokeCount >= 1; each
\* drawing phase starts with an empty list and next id 0.
C28_PhaseMachineAsStated ==
    /\ []EvaluatedHaveStrokes
    /\ [][PhaseStep /\ StrokesChangeWhileDrawing
            /\ EvaluatedOncePerSubmission /\ DrawingStartsEmpty]_vars

\* C28 amended: as stated, except that the stroke list is also cleared in
\* the submitted phase, by Try Again on the way to idle.
C28_PhaseMachine ==
    /\ []EvaluatedHaveStrokes
    /\ [][PhaseStep /\ StrokesChangeWhileDrawingOrOnRetry
            /\ EvaluatedOncePerSubmission /\ DrawingStartsEmpty]_vars

\* a submission of one retained stroke after another stroke was taken back
C28_Witness ==
    /\ ui.phase = "submitted"
    /\ Len(ui.evaluated) = 1
    /\ ui.evaluated[1].strokeCount = 1
    /\ ui.evaluated[1].strokes[1].id = 1

-----------------------------------------------------------------------------
(* undo, clear and buildSession after a drawing (SpecUndo)

   The hook is taken after a session was started and up to UndoStrokes
   strokes were drawn, each in a time slot of its own, possibly after a first
   stroke that was taken back and possibly with a gesture in progress; from
   there undo, clear and buildSession are called in any order. *)

\* strokes drawn at most before undo, clear and buildSession are called
UndoStrokes == MaxStrokes + 1

\* how a drawing is made: whether a first stroke was drawn and taken back,
\* the strokes (each from the start of its time slot or one sample later,
\* with len samples), and the samples of the gesture in progress at the end
DrawingScripts ==
    [undone : BOOLEAN,
     strokes : SeqsUpTo([late : BOOLEAN, len : 2..MaxBuf], UndoStrokes),
     pending : 0..MaxBuf]

\* the clock reading when the gesture of slot k starts: a slot is 50 ms, and
\* a gesture is sampled every 10 ms
SlotStart(k, late) == 50 * k + (IF late THEN 10 ELSE 0)

\* the samples toPoint makes of a gesture of len samples from start on
GesturePoints(start, len) ==
    [j \in 1..len |->
        ToPoint(PointerAt(start + 10 * (j - 1)), start + 10 * (j - 1))]

\* beginStroke, addPoint for every sample, endStroke
DrawStroke(w, start, len) ==
    CHOOSE drawn \in
        {EndStroke(v) :
            v \in {AddPoints(BeginStroke(w), GesturePoints(start, len), 1)}} :
        TRUE

RECURSIVE DrawStrokes(_, _, _)
\* the strokes from the k-th on, the k-th in slot k
DrawStrokes(w, strokes, k) ==
    IF k > Len(strokes) THEN w
    ELSE CHOOSE drawn \in
             {DrawStrokes(v, strokes, k + 1) :
                 v \in {DrawStroke(w, SlotStart(k, strokes[k].late),
                                   strokes[k].len)}} :
             TRUE

\* startSession, and the first stroke that was drawn and taken back
Started(undone) ==
    CHOOSE w \in
        {IF undone THEN Undo(DrawStroke(v, SlotStart(0, FALSE), 2)) ELSE v :
            v \in {StartSession(World(InitialHook, << >>), 0,
                                CHOOSE wall \in WallTimes : TRUE)}} :
        TRUE

\* the hook after the drawing, the gesture in progress being beginStroke
\* and addPoint for every pending sample
Drawn(script) ==
    CHOOSE w \in
        {IF script.pending = 0 THEN v
         ELSE AddPoints(BeginStroke(v),
                        GesturePoints(SlotStart(Len(script.strokes) + 1, FALSE),
                                      script.pending),
                        1) :
            v \in {DrawStrokes(Started(script.undone), script.strokes, 1)}} :
        TRUE

InitUndo ==
    /\ InitEngine
    /\ IdleConc
    /\ IdleMetrics
    /\ IdleUI
    /\ hook \in {Drawn(script).hook : script \in DrawingScripts}
    /\ now = SlotStart(UndoStrokes + 2, FALSE)
    /\ built = << >>

NextUndo ==
    \/ UndoCall
    \/ ClearCall
    \/ BuildSessionCall
    \/ DropSession

SpecUndo == InitUndo /\ [][NextUndo]_vars


-----------------------------------------------------------------------------
(* C29 *)

\* the gesture in progress and the next id are what they were
GestureAndNextIdKept ==
    /\ hook'.currentPoints = hook.currentPoints
    /\ hook'.strokeId = hook.strokeId

\* the list lost its last stroke and nothing else, or was empty and is
UndoStep ==
    /\ IF hook.strokes = << >> THEN hook'.strokes = << >>
       ELSE /\ Len(hook'.strokes) = Len(hook.strokes) - 1
            /\ \A i \in 1..Len(hook'.strokes) :
                   hook'.strokes[i] = hook.strokes[i]
    /\ GestureAndNextIdKept

ClearStep == hook'.strokes = << >> /\ GestureAndNextIdKept

\* the session holds the strokes of the list and the pauses between the
\* strokes adjacent in it
BuildStep ==
    LET session == built'[1].session
        strokes == hook.strokes
    IN  /\ session.strokes = strokes
        /\ Len(session.pausesBetweenStrokes) =
               (IF strokes = << >> THEN 0 ELSE Len(strokes) - 1)
        /\ \A i \in 1..Len(session.pausesBetweenStrokes) :
               session.pausesBetweenStrokes[i] =
                   strokes[i + 1].startTime - strokes[i].endTime

\* C29: undo removes exactly the last stroke of the list and leaves every
\* earlier stroke (id, points, metrics) and the order as they were, and does
\* nothing on an empty list; clear empties the list; neither changes the
\* points of the gesture in progress nor the next id; a session built
\* afterwards has its pauses between the strokes adjacent in the list that
\* remains.
C29_UndoClearFrame ==
    [][ /\ UndoCall => UndoStep
        /\ ClearCall => ClearStep
        /\ BuildSessionCall => BuildStep ]_vars

\* the third stroke was taken back while a gesture was in progress, and the
\* session built then has the one pause between the two strokes that remain
C29_Witness ==
    /\ built # << >>
    /\ built[1].sharesState
    /\ Len(hook.strokes) = 2
    /\ hook.strokes[1].id = 0
    /\ hook.strokes[2].id = 1
    /\ hook.strokeId = 3
    /\ hook.currentPoints # << >>
    /\ built[1].session.pausesBetweenStrokes =
           <<hook.strokes[2].startTime - hook.strokes[1].endTime>>

====
